---- MODULE Spec2Model ----
(***************************************************************************)
(* LLMQ final commitments and the quorum manager of src/llmq:              *)
(*   commitment.cpp  CFinalCommitment::Verify / VerifyNull / VerifySizes,   *)
(*                   CheckLLMQCommitment                                    *)
(*   quorums.cpp     CQuorum, CQuorumManager                                *)
(*                                                                         *)
(* The specifications share the variables of this module:                  *)
(*   SpecQC    the commitment's own checks, applied to drawn commitments    *)
(*   SpecTx    CheckLLMQCommitment, applied to drawn commitment             *)
(*             transactions                                                *)
(*   Spec      the quorum manager: caches, durable storage, peer messages   *)
(*   SpecOut   RequestQuorumData and QDATA while the clock runs             *)
(*   SpecIn    QGETDATA while the clock runs                                *)
(*   SpecBuild GetQuorum as quorums leave the cache and are built again     *)
(*   SpecScan  ScanQuorums on a chain that does not change                  *)
(*   SpecConn  EnsureQuorumConnections as the tip advances                  *)
(*   SpecRec   UpdatedBlockTip and the quorum data recovery tasks           *)
(*   SpecRecLive  SpecRec with tasks that are scheduled and a running clock *)
(*   SpecServe QGETDATA as answered to masternodes, watchers and others     *)
(*   SpecStart Start on machines of every hardware concurrency              *)
(*   SpecGet   GetQuorum called by two threads at once                      *)
(*   SpecTrigger  TriggerQuorumDataRecoveryThreads under every setting      *)
(*   SpecReorg ScanQuorums while the chain is reorganized                   *)
(***************************************************************************)
EXTENDS Integers, Sequences, FiniteSets, TLC

VARIABLES
    qcTx,                   \* CFinalCommitmentTxPayload under check (payload, nVersion, nHeight, commitment)
    pindexPrev,             \* block the commitment transaction extends
    pQuorumBaseBlockIndex,  \* anchor block handed to Verify
    checkSigs,              \* Verify's checkSigs argument
    ret,                    \* what the last call returned
    activeMasternodeInfo,   \* this node's masternode identity
    minedCommitments,       \* quorumBlockProcessor: quorum hash -> commitment mined for LLMQ_TEST
    evoDb,                  \* durable storage of verification vectors and secret key shares
    dkgManager,             \* verified contributions the DKG session manager holds, per quorum hash
    mapQuorumsCache,        \* quorum hash -> quorum, most recently used first
    mapQuorumDataRequests,  \* (peer proTxHash, outgoing) -> request
    adjustedTime,           \* GetAdjustedTime()
    crashed,                \* the process has died
    scanQuorumsCache,       \* scan start block hash -> quorums found, most recently used first
    masternodeQuorums,      \* g_connman: hashes of the quorums with masternode quorum nodes set
    workerPool,             \* the quorum data recovery tasks pushed to the worker pool, in order
    quorumThreadInterrupt,  \* the interrupt Stop raises
    fBlockchainSynced,      \* masternodeSync.IsBlockchainSynced()
    connectedNodes,         \* g_connman: verified proTxHashes of the connected nodes
    quorumsCacheCs,         \* the lock of the quorum caches: the call that holds it, or 0
    calls,                  \* the calls in progress: position and locals of each
    quorumPtrs,             \* the CQuorum objects made, and the one each cache entry points to
    hardware_concurrency,   \* std::thread::hardware_concurrency() of the machine
    gArgs                   \* the settings -llmq-data-recovery and -llmq-qvvec-sync

qcVarsButRet == <<qcTx, pindexPrev, pQuorumBaseBlockIndex, checkSigs>>
qcVars == <<qcTx, pindexPrev, pQuorumBaseBlockIndex, checkSigs, ret>>
mgrVars == <<activeMasternodeInfo, minedCommitments, evoDb, dkgManager, mapQuorumsCache,
             mapQuorumDataRequests, adjustedTime, crashed>>
callVars == <<quorumsCacheCs, calls, quorumPtrs, hardware_concurrency, gArgs>>
recVars == <<workerPool, quorumThreadInterrupt, fBlockchainSynced, connectedNodes, callVars>>
scanVars == <<scanQuorumsCache, masternodeQuorums, recVars>>

\* the threads that can be inside a call at the same time
CallIds == {1, 2}

\* no call is in progress and no quorum object was made
CallsIdle ==
    /\ quorumsCacheCs = 0
    /\ calls = [i \in CallIds |-> [pc |-> "idle"]]
    /\ quorumPtrs = [allocated |-> 0, cached |-> <<>>]
    /\ hardware_concurrency = 0
    /\ gArgs = [dataRecovery |-> TRUE, qvvecSync |-> "Always"]

\* no recovery task was pushed, the chain is synced, no node is connected
RecIdle ==
    /\ workerPool = <<>>
    /\ quorumThreadInterrupt = FALSE
    /\ fBlockchainSynced = TRUE
    /\ connectedNodes = {}
    /\ CallsIdle

\* a null pointer; block and object handles are positive numbers
nullptr == 0

(***************************************************************************)
(* Bounds of the model.                                                    *)
(***************************************************************************)
\* params.size of the one configured quorum type
LLMQSize == 2
\* params.minSize and params.threshold of the one configured quorum type
LLMQMinSize == 1
\* max_size of the quorum cache
QuorumsCacheSize == 2
\* the clock stops at MaxTime
MaxTime == 3
\* the largest count asked of ScanQuorums
MaxCount == 4

(***************************************************************************)
(* Block index: a fixed tree.  Block 1 is genesis, 1-2-3-6-7-8-9-10 is the  *)
(* active chain, 1-4-5 a side branch.  A hash not produced by GetBlockHash *)
(* is unknown.                                                             *)
(***************************************************************************)
pprev == <<nullptr, 1, 2, 1, 4, 3, 6, 7, 8, 9>>

Blocks == DOMAIN pprev

\* the blocks around the fork
ForkBlocks == {1, 2, 3, 4, 5}

RECURSIVE nHeight(_)
nHeight(b) == IF pprev[b] = nullptr THEN 0 ELSE 1 + nHeight(pprev[b])

GetBlockHash(b) == 100 + b

LookupBlockIndex(hash) ==
    IF \E b \in Blocks : GetBlockHash(b) = hash
    THEN CHOOSE b \in Blocks : GetBlockHash(b) = hash
    ELSE nullptr

RECURSIVE GetAncestor(_, _)
GetAncestor(b, height) ==
    IF height > nHeight(b) \/ height < 0 THEN nullptr
    ELSE IF nHeight(b) = height THEN b
    ELSE GetAncestor(pprev[b], height)

(***************************************************************************)
(* Consensus parameters: one configured quorum type.                       *)
(***************************************************************************)
LLMQ_TEST == "LLMQ_TEST"
LLMQ_NONE == "LLMQ_NONE"
LLMQTypes == {LLMQ_TEST, LLMQ_NONE}
llmqs == {LLMQ_TEST}

GetLLMQParams(llmqType) ==
    [type |-> llmqType, size |-> LLMQSize, minSize |-> LLMQMinSize, threshold |-> LLMQMinSize,
     dkgInterval |-> 2, keepOldConnections |-> 2]

\* CLLMQUtils::GetAllQuorumMembers: the registry yields one masternode more per
\* block of height, and never more than params.size members.
RegisteredAt(b) == nHeight(b) + 1

GetAllQuorumMembers(params, b) ==
    [i \in 1..(IF RegisteredAt(b) < params.size THEN RegisteredAt(b) ELSE params.size) |-> 10 + i]

(***************************************************************************)
(* CFinalCommitment                                                        *)
(***************************************************************************)
CURRENT_VERSION == 1

\* A BLS signature is malformed, well-formed but not verifying, or verifying.
SigStates == {"invalid", "wellformed", "verifies"}
SigIsValid(sig) == sig # "invalid"
SigVerifies(sig) == sig = "verifies"

BitSets(n) == [1..n -> BOOLEAN]

\* C++ index i of a std::vector<bool> is element i + 1 of the sequence
Bit(bits, i) == bits[i + 1]

CountBits(bits) == Cardinality({i \in DOMAIN bits : bits[i]})
CountSigners(c) == CountBits(c.signers)
CountValidMembers(c) == CountBits(c.validMembers)

IsNull(c) ==
    /\ CountBits(c.signers) = 0
    /\ CountBits(c.validMembers) = 0
    /\ ~c.quorumPublicKey

VerifySizes(c, params) ==
    IF Len(c.signers) # params.size THEN FALSE
    ELSE IF Len(c.validMembers) # params.size THEN FALSE
    ELSE TRUE

\* Verify without the signers count check
Verify_NoSignersCount(c, pQuorumBase, checkSigsIn) ==
    IF c.nVersion = 0 \/ c.nVersion > CURRENT_VERSION THEN FALSE
    ELSE IF c.llmqType \notin llmqs THEN FALSE
    ELSE LET llmq_params == GetLLMQParams(c.llmqType) IN
    IF ~VerifySizes(c, llmq_params) THEN FALSE
    ELSE IF CountValidMembers(c) < llmq_params.minSize THEN FALSE
    ELSE IF ~c.quorumPublicKey THEN FALSE
    ELSE IF c.quorumVvecHash = 0 THEN FALSE
    ELSE IF ~SigIsValid(c.membersSig) THEN FALSE
    ELSE IF ~SigIsValid(c.quorumSig) THEN FALSE
    ELSE LET members == GetAllQuorumMembers(llmq_params, pQuorumBase) IN
    IF \E i \in Len(members)..(llmq_params.size - 1) :
          Bit(c.validMembers, i) \/ Bit(c.signers, i) THEN FALSE
    ELSE IF checkSigsIn
         THEN IF ~SigVerifies(c.membersSig) THEN FALSE
              ELSE IF ~SigVerifies(c.quorumSig) THEN FALSE
              ELSE TRUE
    ELSE TRUE

\* Verify whose loop over the indexes beyond the member list skips the signers bits
Verify_NoSignersBeyond(c, pQuorumBase, checkSigsIn) ==
    IF c.nVersion = 0 \/ c.nVersion > CURRENT_VERSION THEN FALSE
    ELSE IF c.llmqType \notin llmqs THEN FALSE
    ELSE LET llmq_params == GetLLMQParams(c.llmqType) IN
    IF ~VerifySizes(c, llmq_params) THEN FALSE
    ELSE IF CountValidMembers(c) < llmq_params.minSize THEN FALSE
    ELSE IF CountSigners(c) < llmq_params.minSize THEN FALSE
    ELSE IF ~c.quorumPublicKey THEN FALSE
    ELSE IF c.quorumVvecHash = 0 THEN FALSE
    ELSE IF ~SigIsValid(c.membersSig) THEN FALSE
    ELSE IF ~SigIsValid(c.quorumSig) THEN FALSE
    ELSE LET members == GetAllQuorumMembers(llmq_params, pQuorumBase) IN
    IF \E i \in Len(members)..(llmq_params.size - 1) : Bit(c.validMembers, i) THEN FALSE
    ELSE IF checkSigsIn
         THEN IF ~SigVerifies(c.membersSig) THEN FALSE
              ELSE IF ~SigVerifies(c.quorumSig) THEN FALSE
              ELSE TRUE
    ELSE TRUE

Verify(c, pQuorumBase, checkSigsIn) ==
    IF c.nVersion = 0 \/ c.nVersion > CURRENT_VERSION THEN FALSE
    ELSE IF c.llmqType \notin llmqs THEN FALSE
    ELSE LET llmq_params == GetLLMQParams(c.llmqType) IN
    IF ~VerifySizes(c, llmq_params) THEN FALSE
    ELSE IF CountValidMembers(c) < llmq_params.minSize THEN FALSE
    ELSE IF CountSigners(c) < llmq_params.minSize THEN FALSE
    ELSE IF ~c.quorumPublicKey THEN FALSE
    ELSE IF c.quorumVvecHash = 0 THEN FALSE
    ELSE IF ~SigIsValid(c.membersSig) THEN FALSE
    ELSE IF ~SigIsValid(c.quorumSig) THEN FALSE
    ELSE LET members == GetAllQuorumMembers(llmq_params, pQuorumBase) IN
    IF \E i \in Len(members)..(llmq_params.size - 1) :
          Bit(c.validMembers, i) \/ Bit(c.signers, i) THEN FALSE
    ELSE IF checkSigsIn
         THEN IF ~SigVerifies(c.membersSig) THEN FALSE
              ELSE IF ~SigVerifies(c.quorumSig) THEN FALSE
              ELSE TRUE
    ELSE TRUE

\* VerifyNull without the size check
VerifyNull_NoSizes(c) ==
    IF c.llmqType \notin llmqs THEN FALSE
    ELSE IF ~IsNull(c) THEN FALSE
    ELSE TRUE

VerifyNull(c) ==
    IF c.llmqType \notin llmqs THEN FALSE
    ELSE IF ~IsNull(c) \/ ~VerifySizes(c, GetLLMQParams(c.llmqType)) THEN FALSE
    ELSE TRUE

(***************************************************************************)
(* CheckLLMQCommitment                                                     *)
(***************************************************************************)
DoS(level, reason) == [ok |-> FALSE, reason |-> reason, dos |-> level]
Accepted == [ok |-> TRUE, reason |-> "", dos |-> 0]

\* GetTxPayload: the payload deserializes and no byte is left over
GetTxPayload(tx) == tx.payload = "ok"

\* CheckLLMQCommitment without the comparison against pindexPrev's ancestor
CheckLLMQCommitment_NoAncestor(tx, prev) ==
    IF ~GetTxPayload(tx) THEN DoS(100, "bad-qc-payload")
    ELSE IF tx.nVersion = 0 \/ tx.nVersion > CURRENT_VERSION THEN DoS(100, "bad-qc-version")
    ELSE IF tx.nHeight # nHeight(prev) + 1 THEN DoS(100, "bad-qc-height")
    ELSE LET pQuorumBase == LookupBlockIndex(tx.commitment.quorumHash) IN
    IF pQuorumBase = nullptr THEN DoS(100, "bad-qc-quorum-hash")
    ELSE IF tx.commitment.llmqType \notin llmqs THEN DoS(100, "bad-qc-type")
    ELSE IF IsNull(tx.commitment)
         THEN IF ~VerifyNull(tx.commitment) THEN DoS(100, "bad-qc-invalid-null")
              ELSE Accepted
    ELSE IF ~Verify(tx.commitment, pQuorumBase, FALSE) THEN DoS(100, "bad-qc-invalid")
    ELSE Accepted

\* CheckLLMQCommitment that looks up the anchor before it compares the height
CheckLLMQCommitment_HashFirst(tx, prev) ==
    IF ~GetTxPayload(tx) THEN DoS(100, "bad-qc-payload")
    ELSE IF tx.nVersion = 0 \/ tx.nVersion > CURRENT_VERSION THEN DoS(100, "bad-qc-version")
    ELSE LET pQuorumBase == LookupBlockIndex(tx.commitment.quorumHash) IN
    IF pQuorumBase = nullptr THEN DoS(100, "bad-qc-quorum-hash")
    ELSE IF pQuorumBase # GetAncestor(prev, nHeight(pQuorumBase)) THEN DoS(100, "bad-qc-quorum-hash")
    ELSE IF tx.nHeight # nHeight(prev) + 1 THEN DoS(100, "bad-qc-height")
    ELSE IF tx.commitment.llmqType \notin llmqs THEN DoS(100, "bad-qc-type")
    ELSE IF IsNull(tx.commitment)
         THEN IF ~VerifyNull(tx.commitment) THEN DoS(100, "bad-qc-invalid-null")
              ELSE Accepted
    ELSE IF ~Verify(tx.commitment, pQuorumBase, FALSE) THEN DoS(100, "bad-qc-invalid")
    ELSE Accepted

\* CheckLLMQCommitment that asks Verify to check the signatures
CheckLLMQCommitment_CheckSigs(tx, prev) ==
    IF ~GetTxPayload(tx) THEN DoS(100, "bad-qc-payload")
    ELSE IF tx.nVersion = 0 \/ tx.nVersion > CURRENT_VERSION THEN DoS(100, "bad-qc-version")
    ELSE IF tx.nHeight # nHeight(prev) + 1 THEN DoS(100, "bad-qc-height")
    ELSE LET pQuorumBase == LookupBlockIndex(tx.commitment.quorumHash) IN
    IF pQuorumBase = nullptr THEN DoS(100, "bad-qc-quorum-hash")
    ELSE IF pQuorumBase # GetAncestor(prev, nHeight(pQuorumBase)) THEN DoS(100, "bad-qc-quorum-hash")
    ELSE IF tx.commitment.llmqType \notin llmqs THEN DoS(100, "bad-qc-type")
    ELSE IF IsNull(tx.commitment)
         THEN IF ~VerifyNull(tx.commitment) THEN DoS(100, "bad-qc-invalid-null")
              ELSE Accepted
    ELSE IF ~Verify(tx.commitment, pQuorumBase, TRUE) THEN DoS(100, "bad-qc-invalid")
    ELSE Accepted

CheckLLMQCommitment(tx, prev) ==
    IF ~GetTxPayload(tx) THEN DoS(100, "bad-qc-payload")
    ELSE IF tx.nVersion = 0 \/ tx.nVersion > CURRENT_VERSION THEN DoS(100, "bad-qc-version")
    ELSE IF tx.nHeight # nHeight(prev) + 1 THEN DoS(100, "bad-qc-height")
    ELSE LET pQuorumBase == LookupBlockIndex(tx.commitment.quorumHash) IN
    IF pQuorumBase = nullptr THEN DoS(100, "bad-qc-quorum-hash")
    ELSE IF pQuorumBase # GetAncestor(prev, nHeight(pQuorumBase)) THEN DoS(100, "bad-qc-quorum-hash")
    ELSE IF tx.commitment.llmqType \notin llmqs THEN DoS(100, "bad-qc-type")
    ELSE IF IsNull(tx.commitment)
         THEN IF ~VerifyNull(tx.commitment) THEN DoS(100, "bad-qc-invalid-null")
              ELSE Accepted
    ELSE IF ~Verify(tx.commitment, pQuorumBase, FALSE) THEN DoS(100, "bad-qc-invalid")
    ELSE Accepted

(***************************************************************************)
(* Inputs.                                                                 *)
(***************************************************************************)
Versions == 0..(CURRENT_VERSION + 1)

\* bit-vector pairs: both of the configured size, or one of them a bit short
BitSetPairs ==
    (BitSets(LLMQSize) \X BitSets(LLMQSize))
        \cup (BitSets(LLMQSize - 1) \X BitSets(LLMQSize))
        \cup (BitSets(LLMQSize) \X BitSets(LLMQSize - 1))

QuorumHashes == {GetBlockHash(b) : b \in ForkBlocks} \cup {0}

MkCommitment(ver, type, hash, bits, pk, vvecHash, msig, qsig) ==
    [nVersion |-> ver, llmqType |-> type, quorumHash |-> hash,
     signers |-> bits[1], validMembers |-> bits[2],
     quorumPublicKey |-> pk, quorumVvecHash |-> vvecHash,
     membersSig |-> msig, quorumSig |-> qsig]

SigPairs == SigStates \X SigStates

Commitments(hashes, bitPairs, vvecHashes, sigPairs) ==
    {MkCommitment(ver, type, hash, bits, pk, vh, sigs[1], sigs[2]) :
        ver \in Versions, type \in LLMQTypes, hash \in hashes, bits \in bitPairs,
        pk \in BOOLEAN, vh \in vvecHashes, sigs \in sigPairs}

NoRet == [op |-> "none"]

(***************************************************************************)
(* Quorum manager (quorums.cpp): collaborators.                            *)
(***************************************************************************)
\* the blocks at which a DKG round was anchored
QuorumAnchors == {3}

fMasternodeMode == TRUE
IsWatchQuorumsEnabled == FALSE

\* masternodes this node can be: a member of the quorums, or one that is none
ActiveProTxHashes == {11, 19}

\* A verification vector: an identity and a number of coefficients, here
\* params.threshold of them.  NoVvec is the null pointer to one.
NoVvec == [id |-> 0, size |-> 0]
Vvecs ==
    {[id |-> 1, size |-> GetLLMQParams(LLMQ_TEST).threshold],
     [id |-> 2, size |-> GetLLMQParams(LLMQ_TEST).threshold]}

\* ::SerializeHash of a verification vector: distinct vectors, distinct hashes
SerializeHash(vvec) == 200 + 10 * vvec.size + vvec.id

\* CBLSSecretKey: 0 is the invalid (default) key
SecretKeys == {0, 1, 2}
SkIsValid(sk) == sk # 0
GetPublicKey(sk) == 300 + sk
\* CBLSPublicKey(): the invalid (default) public key
InvalidPublicKey == [valid |-> FALSE]
\* blsCache.BuildPubKeyShare: the public key share the vector yields for a member
BuildPubKeyShare(vvec, memberIdx) == 300 + ((vvec.id + memberIdx) % 2) + 1

\* CQuorumDataRequest
QUORUM_VERIFICATION_VECTOR == 1
ENCRYPTED_CONTRIBUTIONS == 2
DataMasks == 1..(QUORUM_VERIFICATION_VECTOR + ENCRYPTED_CONTRIBUTIONS)
MaskHas(nDataMask, bit) == (nDataMask \div bit) % 2 = 1

\* age, in clock ticks, at which a request is expired
EXPIRATION_TIMEOUT == 2

Errors == {"NONE", "UNDEFINED", "QUORUM_NOT_FOUND"}

NoRequest == [nTime |-> -1]

CQuorumDataRequest(llmqType, quorumHash, nDataMask, proTxHash, now) ==
    [llmqType |-> llmqType, quorumHash |-> quorumHash, nDataMask |-> nDataMask,
     proTxHash |-> proTxHash, nError |-> "UNDEFINED", fProcessed |-> FALSE, nTime |-> now]

IsExpired(request, now) == now - request.nTime >= EXPIRATION_TIMEOUT

\* CQuorumDataRequest::operator!=
RequestDiffers(a, b) ==
    \/ a.llmqType # b.llmqType
    \/ a.quorumHash # b.quorumHash
    \/ a.nDataMask # b.nDataMask
    \/ a.proTxHash # b.proTxHash

\* peers: a verified masternode, an unverified peer that is no quorum watcher,
\* and a verified masternode that speaks a protocol older than
\* LLMQ_DATA_MESSAGES_VERSION
VerifiedPeer == [proTxHash |-> 12, qwatch |-> FALSE, versionOk |-> TRUE]
Peers ==
    {VerifiedPeer,
     [proTxHash |-> 0, qwatch |-> FALSE, versionOk |-> TRUE],
     [proTxHash |-> 12, qwatch |-> FALSE, versionOk |-> FALSE]}

RequestKeys == {p.proTxHash : p \in Peers} \X BOOLEAN

(***************************************************************************)
(* unordered_lru_cache: entries most recently used first.                  *)
(***************************************************************************)
CacheHas(cache, key) == \E i \in DOMAIN cache : cache[i].key = key

CacheValue(cache, key) == cache[CHOOSE i \in DOMAIN cache : cache[i].key = key].value

CacheWithout(cache, key) == SelectSeq(cache, LAMBDA e : e.key # key)

\* get: a hit makes the entry the most recently used
CacheTouch(cache, key) ==
    IF CacheHas(cache, key)
    THEN <<[key |-> key, value |-> CacheValue(cache, key)]>> \o CacheWithout(cache, key)
    ELSE cache

\* insert: the least recently used entries beyond max_size are dropped
CacheInsert(cache, key, value) ==
    LET all == <<[key |-> key, value |-> value]>> \o CacheWithout(cache, key)
    IN  SubSeq(all, 1, IF Len(all) < QuorumsCacheSize THEN Len(all) ELSE QuorumsCacheSize)

CachePut(cache, key, value) ==
    [i \in DOMAIN cache |-> IF cache[i].key = key THEN [key |-> key, value |-> value] ELSE cache[i]]

(***************************************************************************)
(* CQuorum                                                                 *)
(***************************************************************************)
\* CQuorum::CQuorum and CQuorum::Init
NewQuorum(qc, pindexQuorum, members) ==
    [qc |-> qc, pindexQuorum |-> pindexQuorum, members |-> members,
     quorumVvec |-> NoVvec, skShare |-> 0, fQuorumDataRecoveryThreadRunning |-> FALSE]

MakeQuorumKey(q) == <<q.qc.llmqType, q.qc.quorumHash, q.members>>

DbKeys ==
    {<<LLMQ_TEST, GetBlockHash(b), GetAllQuorumMembers(GetLLMQParams(LLMQ_TEST), b)>> : b \in QuorumAnchors}

HasVerificationVector_Always(q) == TRUE

HasVerificationVector(q) == q.quorumVvec # NoVvec

\* returns <<accepted, the quorum afterwards>>
SetVerificationVector_NoCheck(q, quorumVecIn) ==
    <<TRUE, [q EXCEPT !.quorumVvec = quorumVecIn]>>

SetVerificationVector(q, quorumVecIn) ==
    IF SerializeHash(quorumVecIn) # q.qc.quorumVvecHash
    THEN <<FALSE, q>>
    ELSE <<TRUE, [q EXCEPT !.quorumVvec = quorumVecIn]>>

\* index of proTxHash in the member list, from 0, or -1
GetMemberIndex(q, proTxHash) ==
    IF \E i \in DOMAIN q.members : q.members[i] = proTxHash
    THEN (CHOOSE i \in DOMAIN q.members : q.members[i] = proTxHash) - 1
    ELSE -1

\* int to size_t: a negative number wraps around
\* the largest representable integer stands for SIZE_MAX
ToSizeT(n) == IF n < 0 THEN 2147483647 + (n + 1) ELSE n

IsValidMember(q, proTxHash) ==
    IF GetMemberIndex(q, proTxHash) # -1
    THEN Bit(q.qc.validMembers, GetMemberIndex(q, proTxHash))
    ELSE FALSE

GetPubKeyShare_AnyVvec(q, memberIdx) ==
    IF memberIdx >= Len(q.members)
    THEN InvalidPublicKey
    ELSE IF ~Bit(q.qc.validMembers, memberIdx)
    THEN InvalidPublicKey
    ELSE [valid |-> TRUE, key |-> BuildPubKeyShare(q.quorumVvec, memberIdx)]

GetPubKeyShare(q, memberIdx) ==
    IF ~HasVerificationVector(q) \/ memberIdx >= Len(q.members)
    THEN InvalidPublicKey
    ELSE IF ~Bit(q.qc.validMembers, memberIdx)
    THEN InvalidPublicKey
    ELSE [valid |-> TRUE, key |-> BuildPubKeyShare(q.quorumVvec, memberIdx)]

\* returns <<accepted, the quorum afterwards>>
SetSecretKeyShare_NoCompare(q, secretKeyShare, myProTxHash) ==
    IF ~SkIsValid(secretKeyShare)
    THEN <<FALSE, q>>
    ELSE <<TRUE, [q EXCEPT !.skShare = secretKeyShare]>>

SetSecretKeyShare(q, secretKeyShare, myProTxHash) ==
    IF \/ ~SkIsValid(secretKeyShare)
       \/ [valid |-> TRUE, key |-> GetPublicKey(secretKeyShare)]
              # GetPubKeyShare(q, ToSizeT(GetMemberIndex(q, myProTxHash)))
    THEN <<FALSE, q>>
    ELSE <<TRUE, [q EXCEPT !.skShare = secretKeyShare]>>

\* the durable storage after the quorum's material is written
WriteContributions_VvecOnly(q, db) ==
    IF HasVerificationVector(q) THEN [db EXCEPT !.vvec[MakeQuorumKey(q)] = q.quorumVvec] ELSE db

WriteContributions(q, db) ==
    LET dbKey == MakeQuorumKey(q)
        db1 == IF HasVerificationVector(q)
               THEN [db EXCEPT !.vvec[dbKey] = q.quorumVvec]
               ELSE db
    IN  IF SkIsValid(q.skShare) THEN [db1 EXCEPT !.sk[dbKey] = q.skShare] ELSE db1

\* returns <<read, the quorum afterwards>>
ReadContributions(q, db) ==
    LET dbKey == MakeQuorumKey(q) IN
    IF db.vvec[dbKey] # NoVvec
    THEN <<TRUE, [q EXCEPT !.quorumVvec = db.vvec[dbKey],
                           !.skShare = IF db.sk[dbKey] # 0 THEN db.sk[dbKey] ELSE @]>>
    ELSE <<FALSE, q>>

(***************************************************************************)
(* CQuorumManager                                                          *)
(***************************************************************************)
NoCommitment == [nVersion |-> 0]

HasMinedCommitment(mined, llmqType, quorumHash) ==
    /\ llmqType = LLMQ_TEST
    /\ quorumHash \in DOMAIN mined
    /\ mined[quorumHash] # NoCommitment

HasQuorum(mined, llmqType, quorumHash) == HasMinedCommitment(mined, llmqType, quorumHash)

\* what dkgManager.GetVerifiedContributions yields, aggregated by the BLS
\* worker: nothing, or a verification vector (NoVvec when it cannot be built)
\* and a secret key share (0 when the aggregate is not a valid key)
NoContributions == [ok |-> FALSE]
VerifiedContributions ==
    {NoContributions, [ok |-> TRUE, vvec |-> NoVvec, sk |-> 0]} \cup
        {[ok |-> TRUE, vvec |-> v, sk |-> 2 - v.id] : v \in Vvecs}

\* returns <<built, the quorum afterwards>>
BuildQuorumContributions(fqc, q, dkg) ==
    LET contributions == dkg[q.qc.quorumHash] IN
    IF ~contributions.ok THEN <<FALSE, q>>
    ELSE LET q1 == [q EXCEPT !.quorumVvec = contributions.vvec] IN
    IF ~HasVerificationVector(q1) THEN <<FALSE, q1>>
    ELSE <<TRUE, [q1 EXCEPT !.skShare = IF SkIsValid(contributions.sk) THEN contributions.sk ELSE 0]>>

\* returns [quorum, cache, db]; called with the commitment mined
BuildQuorumFromCommitment(llmqType, pindexQuorum, mined, cache, db, dkg) ==
    LET quorumHash == GetBlockHash(pindexQuorum)
        qc == mined[quorumHash]
        members == GetAllQuorumMembers(GetLLMQParams(llmqType), pindexQuorum)
        quorum == NewQuorum(qc, pindexQuorum, members)
        read == ReadContributions(quorum, db)
        built == BuildQuorumContributions(qc, quorum, dkg)
        result == IF read[1] THEN read[2] ELSE built[2]
        db1 == IF ~read[1] /\ built[1] THEN WriteContributions(built[2], db) ELSE db
    IN  [isNull |-> FALSE, quorum |-> result,
         cache |-> CacheInsert(cache, quorumHash, result), db |-> db1]

\* GetQuorum(llmqType, pindexQuorum): returns [isNull, quorum, cache, db]
GetQuorum_CacheFirst(llmqType, pindexQuorum, mined, cache, db, dkg) ==
    LET quorumHash == GetBlockHash(pindexQuorum) IN
    IF llmqType = LLMQ_TEST /\ CacheHas(cache, quorumHash)
    THEN [isNull |-> FALSE, quorum |-> CacheValue(cache, quorumHash),
          cache |-> CacheTouch(cache, quorumHash), db |-> db]
    ELSE IF ~HasQuorum(mined, llmqType, quorumHash)
    THEN [isNull |-> TRUE, cache |-> cache, db |-> db]
    ELSE BuildQuorumFromCommitment(llmqType, pindexQuorum, mined, cache, db, dkg)

GetQuorum(llmqType, pindexQuorum, mined, cache, db, dkg) ==
    LET quorumHash == GetBlockHash(pindexQuorum) IN
    IF ~HasQuorum(mined, llmqType, quorumHash)
    THEN [isNull |-> TRUE, cache |-> cache, db |-> db]
    ELSE IF CacheHas(cache, quorumHash)
    THEN [isNull |-> FALSE, quorum |-> CacheValue(cache, quorumHash),
          cache |-> CacheTouch(cache, quorumHash), db |-> db]
    ELSE BuildQuorumFromCommitment(llmqType, pindexQuorum, mined, cache, db, dkg)

\* what the QDATA handler hands back: the error it logged ("" when it ran to
\* its end), the state it leaves, and what the two setters answered
Handled(error, requests, cache, db, crash, setVvec, setSk) ==
    [error |-> error, requests |-> requests, cache |-> cache, db |-> db,
     crashed |-> crash, setVvec |-> setVvec, setSk |-> setSk]

\* the entry stored for the peer has had its response
AlreadyReceived_Never(stored) == FALSE

AlreadyReceived(stored) == stored.fProcessed

\* the echoed request is not the stored one
NotLikeRequested_HashOnly(request, stored) == request.quorumHash # stored.quorumHash

NotLikeRequested_MaskIgnored(request, stored) ==
    <<request.llmqType, request.quorumHash, request.proTxHash>>
        # <<stored.llmqType, stored.quorumHash, stored.proTxHash>>

NotLikeRequested(request, stored) == RequestDiffers(request, stored)

\* ProcessMessage, strCommand == QDATA: the set of outcomes.  There is one,
\* except where the handler reads the size of a null quorumVvec: then the
\* process dies, or the comparison with params.threshold goes either way.
ProcessMessageQDATA(pFrom, request, payload, myProTxHash, requests, cache, db) ==
    LET key == <<pFrom.proTxHash, TRUE>>
        processed == [requests EXCEPT ![key].fProcessed = TRUE]
        found == request.llmqType = LLMQ_TEST /\ CacheHas(cache, request.quorumHash)
        cache1 == CacheTouch(cache, request.quorumHash)
        q0 == CacheValue(cache, request.quorumHash)
        wantsVvec == MaskHas(request.nDataMask, QUORUM_VERIFICATION_VECTOR)
        wantsSk == MaskHas(request.nDataMask, ENCRYPTED_CONTRIBUTIONS)
        sv == IF wantsVvec THEN SetVerificationVector(q0, payload.vvec) ELSE <<TRUE, q0>>
        q1 == sv[2]
        cache2 == CachePut(cache1, request.quorumHash, q1)
        setVvec == IF ~wantsVvec THEN "none" ELSE IF sv[1] THEN "accepted" ELSE "rejected"
        ss == SetSecretKeyShare(q1, payload.sk, myProTxHash)
        cache3 == CachePut(cache1, request.quorumHash, ss[2])
        setSk == IF ss[1] THEN "accepted" ELSE "rejected"
        died == Handled("crash", processed, cache2, db, TRUE, setVvec, "none")
        noValidVvec ==
            Handled("No valid quorum verification vector available", processed, cache2, db,
                    FALSE, setVvec, "none")
        \* from the lookup of the requester's member index on
        withValidVvec ==
            IF GetMemberIndex(q1, request.proTxHash) = -1
            THEN Handled("Not a member of the quorum", processed, cache2, db, FALSE, setVvec, "none")
            ELSE IF ~payload.decryptOk
            THEN Handled("Failed to decrypt", processed, cache2, db, FALSE, setVvec, "none")
            ELSE IF ~ss[1]
            THEN Handled("Invalid secret key share received", processed, cache2, db, FALSE, setVvec, setSk)
            ELSE Handled("", processed, cache3, WriteContributions(ss[2], db), FALSE, setVvec, setSk)
    IN
    IF (~fMasternodeMode /\ ~IsWatchQuorumsEnabled) \/ (pFrom.proTxHash = 0 /\ ~pFrom.qwatch)
    THEN {Handled("Not a verified masternode or a qwatch connection", requests, cache, db, FALSE, "none", "none")}
    ELSE IF requests[key] = NoRequest
    THEN {Handled("Not requested", requests, cache, db, FALSE, "none", "none")}
    ELSE IF AlreadyReceived(requests[key])
    THEN {Handled("Already received", requests, cache, db, FALSE, "none", "none")}
    ELSE IF NotLikeRequested(request, requests[key])
    THEN {Handled("Not like requested", requests, cache, db, FALSE, "none", "none")}
    ELSE IF request.nError # "NONE"
    THEN {Handled("Error", processed, cache, db, FALSE, "none", "none")}
    ELSE IF ~found
    THEN {Handled("Quorum not found", processed, cache, db, FALSE, "none", "none")}
    ELSE IF wantsVvec /\ ~sv[1]
    THEN {Handled("Invalid quorum verification vector", processed, cache1, db, FALSE, setVvec, "none")}
    ELSE IF ~wantsSk
    THEN {Handled("", processed, cache2, WriteContributions(q1, db), FALSE, setVvec, "none")}
    ELSE IF ~HasVerificationVector(q1)
    THEN {died, noValidVvec, withValidVvec}
    ELSE IF q1.quorumVvec.size # GetLLMQParams(LLMQ_TEST).threshold
    THEN {noValidVvec}
    ELSE {withValidVvec}

\* no QDATA message pushed
NoResponse == [nError |-> "NOT_SENT"]

\* sendQDATA: the request with its error set, and the body
SendQDATA(request, nError, vvec, encrypted) ==
    [llmqType |-> request.llmqType, quorumHash |-> request.quorumHash,
     nDataMask |-> request.nDataMask, proTxHash |-> request.proTxHash,
     nError |-> nError, vvec |-> vvec, encrypted |-> encrypted]

\* what the QGETDATA handler leaves: the error it logged ("" for none) and its
\* misbehaviour score, the QDATA message pushed, and the state
Served(error, nScore, sent, requests, cache, db) ==
    [error |-> error, nScore |-> nScore, sent |-> sent, requests |-> requests,
     cache |-> cache, db |-> db]

\* ProcessMessage, strCommand == QGETDATA.  hasEncrypted: whether the DKG
\* session manager still has the encrypted contributions for the requester.
ProcessMessageQGETDATA(pFrom, request, hasEncrypted, now, mined, requests, cache, db, dkg) ==
    LET key == <<pFrom.proTxHash, FALSE>>
        received == CQuorumDataRequest(request.llmqType, request.quorumHash, request.nDataMask,
                                       request.proTxHash, now)
        limited == requests[key] # NoRequest /\ ~IsExpired(requests[key], now)
        requests1 == IF limited THEN requests ELSE [requests EXCEPT ![key] = received]
        error == IF limited THEN "Request limit exceeded" ELSE ""
        nScore == IF limited THEN 25 ELSE 0
        pQuorumIndex == LookupBlockIndex(request.quorumHash)
        got == GetQuorum(request.llmqType, pQuorumIndex, mined, cache, db, dkg)
        wantsVvec == MaskHas(request.nDataMask, QUORUM_VERIFICATION_VECTOR)
        wantsEnc == MaskHas(request.nDataMask, ENCRYPTED_CONTRIBUTIONS)
        answer(nError, vvec, encrypted, c, d) ==
            Served(error, nScore, SendQDATA(request, nError, vvec, encrypted), requests1, c, d)
    IN
    IF ~fMasternodeMode \/ (pFrom.proTxHash = 0 /\ ~pFrom.qwatch)
    THEN Served("Not a verified masternode or a qwatch connection", 10, NoResponse,
                requests, cache, db)
    ELSE IF request.llmqType \notin llmqs
    THEN answer("QUORUM_TYPE_INVALID", NoVvec, FALSE, cache, db)
    ELSE IF pQuorumIndex = nullptr
    THEN answer("QUORUM_BLOCK_NOT_FOUND", NoVvec, FALSE, cache, db)
    ELSE IF got.isNull
    THEN answer("QUORUM_NOT_FOUND", NoVvec, FALSE, got.cache, got.db)
    ELSE IF wantsVvec /\ ~HasVerificationVector(got.quorum)
    THEN answer("QUORUM_VERIFICATION_VECTOR_MISSING", NoVvec, FALSE, got.cache, got.db)
    ELSE IF wantsEnc /\ GetMemberIndex(got.quorum, request.proTxHash) = -1
    THEN answer("MASTERNODE_IS_NO_MEMBER", NoVvec, FALSE, got.cache, got.db)
    ELSE IF wantsEnc /\ ~hasEncrypted
    THEN answer("ENCRYPTED_CONTRIBUTIONS_MISSING", NoVvec, FALSE, got.cache, got.db)
    ELSE answer("NONE", IF wantsVvec THEN got.quorum.quorumVvec ELSE NoVvec, wantsEnc,
                got.cache, got.db)

\* the emplace did not insert and the entry found is not expired
AlreadyRequested_Never(stored, now) == FALSE

AlreadyRequested(stored, now) == stored # NoRequest /\ ~IsExpired(stored, now)

\* RequestQuorumData: returns [value, sent, requests, cache, db]
RequestQuorumData(pFrom, llmqType, pQuorumIndex, nDataMask, proTxHash, now, mined, requests, cache, db, dkg) ==
    LET refused == [value |-> FALSE, sent |-> NoRequest, requests |-> requests, cache |-> cache, db |-> db]
    IN
    IF ~pFrom.versionOk THEN refused
    ELSE IF pFrom.proTxHash = 0 /\ ~pFrom.qwatch THEN refused
    ELSE IF llmqType \notin llmqs THEN refused
    ELSE IF pQuorumIndex = nullptr THEN refused
    ELSE LET got == GetQuorum(llmqType, pQuorumIndex, mined, cache, db, dkg)
             key == <<pFrom.proTxHash, TRUE>>
             new == CQuorumDataRequest(llmqType, GetBlockHash(pQuorumIndex), nDataMask, proTxHash, now)
         IN
    IF got.isNull THEN refused
    ELSE IF AlreadyRequested(requests[key], now)
    THEN [refused EXCEPT !.cache = got.cache, !.db = got.db]
    ELSE IF requests[key] # NoRequest
    THEN [value |-> TRUE, sent |-> requests[key], requests |-> requests,
          cache |-> got.cache, db |-> got.db]
    ELSE [value |-> TRUE, sent |-> new, requests |-> [requests EXCEPT ![key] = new],
          cache |-> got.cache, db |-> got.db]


(***************************************************************************)
(* ScanQuorums                                                             *)
(***************************************************************************)
\* chainActive, by height + 1
chainActive == <<1, 2, 3, 6, 7, 8, 9, 10>>

\* the quorum base blocks of the active chain: the first block of each DKG
\* cycle (heights 2, 4 and 6) but the cycle of the genesis block
ScanAnchors == {3, 7, 9}

ScanAnchorHashes == {GetBlockHash(b) : b \in ScanAnchors}

\* the block that mines the commitment of the quorum anchored at b, when one
\* is mined: the next block of b's DKG cycle
MinedIn(b) == chainActive[nHeight(b) + 2]

FirstN(seq, n) == SubSeq(seq, 1, IF Len(seq) < n THEN Len(seq) ELSE n)

\* the anchors of the commitments mined in pindex and its ancestors, last mined first
RECURSIVE MinedUntil(_, _)
MinedUntil(pindex, mined) ==
    IF pindex = nullptr THEN <<>>
    ELSE (IF \E b \in ScanAnchors : MinedIn(b) = pindex /\ mined[GetBlockHash(b)] # NoCommitment
          THEN <<CHOOSE b \in ScanAnchors : MinedIn(b) = pindex>>
          ELSE <<>>) \o MinedUntil(pprev[pindex], mined)

\* CQuorumBlockProcessor::GetMinedCommitmentsUntilBlock
GetMinedCommitmentsUntilBlock(llmqType, pindex, maxCount, mined) ==
    IF llmqType # LLMQ_TEST THEN <<>> ELSE FirstN(MinedUntil(pindex, mined), maxCount)

TheOnly(S) == CHOOSE x \in S : TRUE

\* GetQuorum for each block of quorumIndexes in turn: [cache, db] afterwards
RECURSIVE GetQuorums(_, _, _, _, _, _)
GetQuorums(llmqType, quorumIndexes, mined, cache, db, dkg) ==
    IF quorumIndexes = <<>> THEN [cache |-> cache, db |-> db]
    ELSE TheOnly({GetQuorums(llmqType, Tail(quorumIndexes), mined, got.cache, got.db, dkg) :
                     got \in {GetQuorum(llmqType, Head(quorumIndexes), mined, cache, db, dkg)}})

\* more is cached than requested: the subvector returned
CachedPrefix_Whole(cached, nCountRequested) == cached

CachedPrefix(cached, nCountRequested) == SubSeq(cached, 1, nCountRequested)

\* nothing is cached: the number of commitments to scan for
ScanCountOnMiss_CacheSize(nCountRequested) == QuorumsCacheSize

ScanCountOnMiss(nCountRequested) ==
    IF nCountRequested > QuorumsCacheSize THEN nCountRequested ELSE QuorumsCacheSize

\* the number of quorums of a result that go into the scan cache
CacheEndIndex_One(nCountResult) == 1

CacheEndIndex(nCountResult) ==
    IF nCountResult < QuorumsCacheSize THEN nCountResult ELSE QuorumsCacheSize

\* less is cached than requested: the block the scan for the rest starts at
ScanRestFrom_Start(pindexStart, cached) == pindexStart

ScanRestFrom(pindexStart, cached) == pprev[cached[Len(cached)]]

\* ScanQuorums(llmqType, pindexStart, nCountRequested): returns
\* [result, emplaced, scanCache, cache, db]; a quorum in a result or in the
\* scan cache is named by its pindexQuorum; emplaced: cache.emplace was called
ScanQuorums(llmqType, pindexStart, nCountRequested, mined, scanCache, cache, db, dkg) ==
    LET key == GetBlockHash(pindexStart)
        fCacheExists == CacheHas(scanCache, key)
        cached == IF fCacheExists THEN CacheValue(scanCache, key) ELSE <<>>
        scanCache1 == CacheTouch(scanCache, key)
        nScanCommitments ==
            IF fCacheExists
            THEN IF Len(cached) > 0 THEN nCountRequested - Len(cached) ELSE nCountRequested
            ELSE ScanCountOnMiss(nCountRequested)
        pIndexScanCommitments ==
            IF fCacheExists /\ Len(cached) > 0 THEN ScanRestFrom(pindexStart, cached)
            ELSE pindexStart
        quorumIndexes ==
            GetMinedCommitmentsUntilBlock(llmqType, pIndexScanCommitments, nScanCommitments, mined)
        vecResultQuorums == cached \o quorumIndexes
        emplaced == Len(vecResultQuorums) > 0 /\ ~fCacheExists
        scanCache2 ==
            IF emplaced
            THEN CacheInsert(scanCache1, key,
                             SubSeq(vecResultQuorums, 1, CacheEndIndex(Len(vecResultQuorums))))
            ELSE scanCache1
    IN
    IF pindexStart = nullptr \/ nCountRequested = 0
    THEN [result |-> <<>>, emplaced |-> FALSE, scanCache |-> scanCache, cache |-> cache,
          db |-> db]
    ELSE IF fCacheExists /\ Len(cached) = nCountRequested
    THEN [result |-> cached, emplaced |-> FALSE, scanCache |-> scanCache1, cache |-> cache,
          db |-> db]
    ELSE IF fCacheExists /\ Len(cached) > nCountRequested
    THEN [result |-> CachedPrefix(cached, nCountRequested), emplaced |-> FALSE,
          scanCache |-> scanCache1, cache |-> cache, db |-> db]
    ELSE TheOnly({[result |-> FirstN(vecResultQuorums, nCountRequested), emplaced |-> emplaced,
                   scanCache |-> scanCache2, cache |-> built.cache, db |-> built.db] :
                      built \in {GetQuorums(llmqType, quorumIndexes, mined, cache, db, dkg)}})

(***************************************************************************)
(* EnsureQuorumConnections                                                 *)
(***************************************************************************)
\* CLLMQUtils::EnsureQuorumConnections: <<ensured, g_connman's quorums afterwards>>
CLLMQUtils_EnsureQuorumConnections(llmqType, pindexQuorum, myProTxHash, connman) ==
    LET members == GetAllQuorumMembers(GetLLMQParams(llmqType), pindexQuorum)
        isMember == \E i \in DOMAIN members : members[i] = myProTxHash
    IN  IF ~isMember /\ ~IsWatchQuorumsEnabled THEN <<FALSE, connman>>
        ELSE <<TRUE, connman \cup {GetBlockHash(pindexQuorum)}>>

\* the quorums whose connections may be removed
ConnmanQuorumsToDelete_All(connman, curDkgBlock) == connman

ConnmanQuorumsToDelete(connman, curDkgBlock) == connman \ {curDkgBlock}

\* the loop over lastQuorums: g_connman's quorums afterwards
RECURSIVE EnsureEach(_, _, _, _, _)
EnsureEach(llmqType, lastQuorums, myProTxHash, connmanQuorumsToDelete, connman) ==
    IF lastQuorums = <<>> THEN connman
    ELSE LET pindexQuorum == Head(lastQuorums)
             ensured == CLLMQUtils_EnsureQuorumConnections(llmqType, pindexQuorum, myProTxHash, connman)
         IN  EnsureEach(llmqType, Tail(lastQuorums), myProTxHash, connmanQuorumsToDelete,
                        IF ensured[1] THEN ensured[2]
                        ELSE IF GetBlockHash(pindexQuorum) \in connmanQuorumsToDelete
                        THEN connman \ {GetBlockHash(pindexQuorum)}
                        ELSE connman)

\* EnsureQuorumConnections(llmqType, pindexNew): returns
\* [lastQuorums, connman, scanCache, cache, db]
EnsureQuorumConnections(llmqType, pindexNew, myProTxHash, connman, mined, scanCache, cache, db, dkg) ==
    LET llmq_params == GetLLMQParams(llmqType)
        curDkgHeight == nHeight(pindexNew) - (nHeight(pindexNew) % llmq_params.dkgInterval)
        curDkgBlock == GetBlockHash(GetAncestor(pindexNew, curDkgHeight))
        connmanQuorumsToDelete == ConnmanQuorumsToDelete(connman, curDkgBlock)
    IN  TheOnly({[lastQuorums |-> scan.result,
                  connman |-> EnsureEach(llmqType, scan.result, myProTxHash,
                                         connmanQuorumsToDelete, connman),
                  scanCache |-> scan.scanCache, cache |-> scan.cache, db |-> scan.db] :
                     scan \in {ScanQuorums(llmqType, pindexNew, llmq_params.keepOldConnections,
                                           mined, scanCache, cache, db, dkg)}})

(***************************************************************************)
(* The quorum manager as a state machine.                                  *)
(***************************************************************************)
AnchorHashes == {GetBlockHash(b) : b \in QuorumAnchors}

\* the commitments the block processor can have mined for the anchor block b
MinableCommitments(b) ==
    {c \in Commitments({GetBlockHash(b)}, {<<bits, bits>> : bits \in BitSets(LLMQSize)},
                       {SerializeHash([id |-> 1, size |-> GetLLMQParams(LLMQ_TEST).threshold])},
                       {<<"verifies", "verifies">>}) :
        c.llmqType = LLMQ_TEST /\ Verify(c, b, TRUE)}

EmptyDb == [vvec |-> [k \in DbKeys |-> NoVvec], sk |-> [k \in DbKeys |-> 0]]
NoRequests == [k \in RequestKeys |-> NoRequest]

\* the manager's variables while only commitments are checked
MgrIdle ==
    /\ activeMasternodeInfo = [proTxHash |-> 0]
    /\ minedCommitments = <<>>
    /\ evoDb = EmptyDb
    /\ dkgManager = <<>>
    /\ mapQuorumsCache = <<>>
    /\ mapQuorumDataRequests = NoRequests
    /\ adjustedTime = 0
    /\ crashed = FALSE
    /\ scanQuorumsCache = <<>>
    /\ masternodeQuorums = {}
    /\ RecIdle

\* SpecQC: any commitment, any anchor block, either value of checkSigs
InitQC ==
    /\ MgrIdle
    /\ \E c \in Commitments({GetBlockHash(3)}, BitSetPairs, {0, 1}, SigPairs) :
         qcTx = [payload |-> "ok", nVersion |-> CURRENT_VERSION, nHeight |-> 0, commitment |-> c]
    /\ pindexPrev = nullptr
    /\ pQuorumBaseBlockIndex \in ForkBlocks
    /\ checkSigs \in BOOLEAN
    /\ ret = NoRet

CallVerify ==
    /\ ret = NoRet
    /\ ret' = [op |-> "Verify", value |-> Verify(qcTx.commitment, pQuorumBaseBlockIndex, checkSigs)]
    /\ UNCHANGED <<qcVarsButRet, scanVars, mgrVars>>

CallVerifyNull ==
    /\ ret = NoRet
    /\ ret' = [op |-> "VerifyNull", value |-> VerifyNull(qcTx.commitment)]
    /\ UNCHANGED <<qcVarsButRet, scanVars, mgrVars>>

NextQC == CallVerify \/ CallVerifyNull

SpecQC == InitQC /\ [][NextQC]_<<qcVars, mgrVars, scanVars>>

\* SpecTx: any envelope around a commitment whose two bit-vectors are equal and
\* whose two signatures are in the same state
TxCommitments ==
    Commitments(QuorumHashes,
                {<<b, b>> : b \in BitSets(LLMQSize) \cup BitSets(LLMQSize - 1)},
                {0, 1},
                {<<sig, sig>> : sig \in SigStates})

InitTx ==
    /\ MgrIdle
    /\ qcTx \in [payload : {"ok", "malformed"}, nVersion : Versions,
                 nHeight : 1..3, commitment : TxCommitments]
    /\ pindexPrev \in ForkBlocks
    /\ pQuorumBaseBlockIndex = nullptr
    /\ checkSigs = FALSE
    /\ ret = NoRet

CallCheckLLMQCommitment ==
    /\ ret = NoRet
    /\ ret' = [op |-> "CheckLLMQCommitment", value |-> CheckLLMQCommitment(qcTx, pindexPrev)]
    /\ UNCHANGED <<qcVarsButRet, scanVars, mgrVars>>

NextTx == CallCheckLLMQCommitment

SpecTx == InitTx /\ [][NextTx]_<<qcVars, mgrVars, scanVars>>

(***************************************************************************)
(* Spec: the quorum manager.                                               *)
(***************************************************************************)
Init ==
    /\ qcTx = NoRet
    /\ pindexPrev = nullptr
    /\ pQuorumBaseBlockIndex = nullptr
    /\ checkSigs = FALSE
    /\ ret = NoRet
    /\ activeMasternodeInfo \in [proTxHash : ActiveProTxHashes]
    /\ minedCommitments = [h \in AnchorHashes |-> NoCommitment]
    /\ evoDb = EmptyDb
    /\ dkgManager \in [AnchorHashes -> VerifiedContributions]
    /\ mapQuorumsCache = <<>>
    /\ mapQuorumDataRequests = NoRequests
    /\ adjustedTime = 0
    /\ crashed = FALSE
    /\ scanQuorumsCache = <<>>
    /\ masternodeQuorums = {}
    /\ RecIdle

\* the block processor mines a commitment for an anchor block that has none
MineCommitment(b, c) ==
    /\ ~crashed
    /\ minedCommitments[GetBlockHash(b)] = NoCommitment
    /\ minedCommitments' = [minedCommitments EXCEPT ![GetBlockHash(b)] = c]
    /\ ret' = NoRet
    /\ UNCHANGED <<qcVarsButRet, scanVars, activeMasternodeInfo, evoDb, dkgManager, mapQuorumsCache,
                   mapQuorumDataRequests, adjustedTime, crashed>>

\* a reorganization disconnects the block that mined the commitment
UndoCommitment(b) ==
    /\ ~crashed
    /\ minedCommitments[GetBlockHash(b)] # NoCommitment
    /\ minedCommitments' = [minedCommitments EXCEPT ![GetBlockHash(b)] = NoCommitment]
    /\ ret' = NoRet
    /\ UNCHANGED <<qcVarsButRet, scanVars, activeMasternodeInfo, evoDb, dkgManager, mapQuorumsCache,
                   mapQuorumDataRequests, adjustedTime, crashed>>

\* the node stops and is started again: durable storage stays, memory is lost
Restart ==
    /\ crashed \/ mapQuorumsCache # <<>> \/ mapQuorumDataRequests # NoRequests
    /\ mapQuorumsCache' = <<>>
    /\ mapQuorumDataRequests' = NoRequests
    /\ crashed' = FALSE
    /\ scanQuorumsCache' = <<>>
    /\ masternodeQuorums' = {}
    /\ ret' = NoRet
    /\ UNCHANGED <<qcVarsButRet, activeMasternodeInfo, minedCommitments, evoDb, dkgManager,
                   adjustedTime, recVars>>

CallGetQuorum(llmqType, pindexQuorum) ==
    /\ ~crashed
    /\ \E got \in {GetQuorum(llmqType, pindexQuorum, minedCommitments, mapQuorumsCache, evoDb,
                              dkgManager)} :
           /\ mapQuorumsCache' = got.cache
           /\ evoDb' = got.db
           /\ ret' = [op |-> "GetQuorum", llmqType |-> llmqType,
                      quorumHash |-> GetBlockHash(pindexQuorum), isNull |-> got.isNull]
    /\ UNCHANGED <<qcVarsButRet, scanVars, activeMasternodeInfo, minedCommitments, dkgManager,
                   mapQuorumDataRequests, adjustedTime, crashed>>

\* the calls of RequestQuorumData: every data mask and requester for a peer the
\* function asks, and one call for each argument it turns down at once
RequestQuorumDataCalls ==
    [pFrom : {VerifiedPeer}, llmqType : {LLMQ_TEST}, pQuorumIndex : QuorumAnchors,
     nDataMask : DataMasks, proTxHash : ActiveProTxHashes]
    \cup [pFrom : Peers \ {VerifiedPeer}, llmqType : {LLMQ_TEST}, pQuorumIndex : QuorumAnchors,
          nDataMask : {QUORUM_VERIFICATION_VECTOR}, proTxHash : {0}]
    \cup [pFrom : {VerifiedPeer}, llmqType : {LLMQ_NONE}, pQuorumIndex : QuorumAnchors,
          nDataMask : {QUORUM_VERIFICATION_VECTOR}, proTxHash : {0}]
    \cup [pFrom : {VerifiedPeer}, llmqType : {LLMQ_TEST}, pQuorumIndex : {nullptr},
          nDataMask : {QUORUM_VERIFICATION_VECTOR}, proTxHash : {0}]

CallRequestQuorumData(pFrom, llmqType, pQuorumIndex, nDataMask, proTxHash) ==
    /\ ~crashed
    /\ \E r \in {RequestQuorumData(pFrom, llmqType, pQuorumIndex, nDataMask,
                                   proTxHash, adjustedTime, minedCommitments,
                                   mapQuorumDataRequests, mapQuorumsCache, evoDb, dkgManager)} :
           /\ mapQuorumDataRequests' = r.requests
           /\ mapQuorumsCache' = r.cache
           /\ evoDb' = r.db
           /\ ret' = [op |-> "RequestQuorumData", value |-> r.value, sent |-> r.sent]
    /\ UNCHANGED <<qcVarsButRet, scanVars, activeMasternodeInfo, minedCommitments, dkgManager,
                   adjustedTime, crashed>>

\* the QDATA messages a peer can send: the echoed request, and a payload that
\* holds what the mask names (a share that does not decrypt has decryptOk false)
QDataRequests ==
    [llmqType : {LLMQ_TEST}, quorumHash : AnchorHashes, nDataMask : DataMasks,
     proTxHash : ActiveProTxHashes, nError : {"NONE", "QUORUM_NOT_FOUND"}]

QDataPayloads(request) ==
    IF request.nError # "NONE"
    THEN {[vvec |-> NoVvec, decryptOk |-> FALSE, sk |-> 0]}
    ELSE {[vvec |-> v, decryptOk |-> d[1], sk |-> d[2]] :
            v \in IF MaskHas(request.nDataMask, QUORUM_VERIFICATION_VECTOR) THEN Vvecs ELSE {NoVvec},
            d \in IF MaskHas(request.nDataMask, ENCRYPTED_CONTRIBUTIONS)
                  THEN {<<FALSE, 0>>} \cup ({TRUE} \X SecretKeys)
                  ELSE {<<FALSE, 0>>}}

\* every message of a verified masternode, and one of each other peer
QDataMessages ==
    UNION {{[pFrom |-> VerifiedPeer, request |-> request, payload |-> payload] :
               payload \in QDataPayloads(request)} : request \in QDataRequests}
    \cup {[pFrom |-> pFrom,
           request |-> [llmqType |-> LLMQ_TEST, quorumHash |-> GetBlockHash(b),
                        nDataMask |-> QUORUM_VERIFICATION_VECTOR, proTxHash |-> 0,
                        nError |-> "NONE"],
           payload |-> [vvec |-> v, decryptOk |-> FALSE, sk |-> 0]] :
              pFrom \in Peers, b \in QuorumAnchors, v \in Vvecs}

ReceiveQDATA(pFrom, request, payload) ==
    /\ ~crashed
    /\ \E r \in ProcessMessageQDATA(pFrom, request, payload, activeMasternodeInfo.proTxHash,
                                     mapQuorumDataRequests, mapQuorumsCache, evoDb) :
           /\ mapQuorumDataRequests' = r.requests
           /\ mapQuorumsCache' = r.cache
           /\ evoDb' = r.db
           /\ crashed' = r.crashed
           /\ ret' = [op |-> "QDATA", error |-> r.error, quorumHash |-> request.quorumHash,
                      setVvec |-> r.setVvec,
                      vvecIn |-> IF r.setVvec = "none" THEN NoVvec ELSE payload.vvec,
                      setSk |-> r.setSk,
                      skIn |-> IF r.setSk = "none" THEN 0 ELSE payload.sk]
    /\ UNCHANGED <<qcVarsButRet, scanVars, activeMasternodeInfo, minedCommitments, dkgManager, adjustedTime>>

Next ==
    \/ \E b \in QuorumAnchors : \E c \in MinableCommitments(b) : MineCommitment(b, c)
    \/ \E b \in QuorumAnchors : UndoCommitment(b)
    \/ Restart
    \/ \E llmqType \in LLMQTypes, b \in QuorumAnchors \cup {5} : CallGetQuorum(llmqType, b)
    \/ \E call \in RequestQuorumDataCalls :
           CallRequestQuorumData(call.pFrom, call.llmqType, call.pQuorumIndex, call.nDataMask,
                                 call.proTxHash)
    \/ \E msg \in QDataMessages : ReceiveQDATA(msg.pFrom, msg.request, msg.payload)

vars == <<qcVars, mgrVars, scanVars>>

Spec == Init /\ [][Next]_vars

(***************************************************************************)
(* SpecOut: the outgoing side of the data exchange while the clock runs.   *)
(* This node is a member of the quorum and the DKG sessions have no         *)
(* contributions left, so that quorum data has to come from peers; ret     *)
(* keeps the arguments of the last call and the last message.              *)
(***************************************************************************)
InitOut ==
    /\ Init
    /\ activeMasternodeInfo = [proTxHash |-> 11]
    /\ dkgManager = [h \in AnchorHashes |-> NoContributions]

\* GetAdjustedTime() moves on
Tick ==
    /\ ~crashed
    /\ adjustedTime < MaxTime
    /\ adjustedTime' = adjustedTime + 1
    /\ ret' = NoRet
    /\ UNCHANGED <<qcVarsButRet, scanVars, activeMasternodeInfo, minedCommitments, evoDb, dkgManager,
                   mapQuorumsCache, mapQuorumDataRequests, crashed>>

RequestQuorumDataAt(call) ==
    /\ ~crashed
    /\ \E r \in {RequestQuorumData(call.pFrom, call.llmqType, call.pQuorumIndex,
                                   call.nDataMask, call.proTxHash, adjustedTime,
                                   minedCommitments, mapQuorumDataRequests, mapQuorumsCache,
                                   evoDb, dkgManager)} :
           /\ mapQuorumDataRequests' = r.requests
           /\ mapQuorumsCache' = r.cache
           /\ evoDb' = r.db
           /\ ret' = [op |-> "RequestQuorumData", value |-> r.value, sent |-> r.sent,
                      call |-> call]
    /\ UNCHANGED <<qcVarsButRet, scanVars, activeMasternodeInfo, minedCommitments, dkgManager,
                   adjustedTime, crashed>>

ReceiveQDATAFrom(msg) ==
    /\ ~crashed
    /\ \E r \in ProcessMessageQDATA(msg.pFrom, msg.request, msg.payload,
                                     activeMasternodeInfo.proTxHash,
                                     mapQuorumDataRequests, mapQuorumsCache, evoDb) :
           /\ mapQuorumDataRequests' = r.requests
           /\ mapQuorumsCache' = r.cache
           /\ evoDb' = r.db
           /\ crashed' = r.crashed
           /\ ret' = [op |-> "QDATA", error |-> r.error, pFrom |-> msg.pFrom,
                      request |-> msg.request]
    /\ UNCHANGED <<qcVarsButRet, scanVars, activeMasternodeInfo, minedCommitments, dkgManager, adjustedTime>>

NextOut ==
    \/ \E b \in QuorumAnchors : \E c \in MinableCommitments(b) : MineCommitment(b, c)
    \/ Tick
    \/ \E call \in RequestQuorumDataCalls : RequestQuorumDataAt(call)
    \/ \E msg \in QDataMessages : ReceiveQDATAFrom(msg)

SpecOut == InitOut /\ [][NextOut]_vars

(***************************************************************************)
(* SpecIn: the serving side of the data exchange while the clock runs.     *)
(* The DKG sessions have no contributions, or ones that give a vector.     *)
(***************************************************************************)
InitIn ==
    /\ Init
    /\ activeMasternodeInfo = [proTxHash |-> 11]
    /\ \A h \in AnchorHashes : dkgManager[h].ok => dkgManager[h].vvec # NoVvec

\* the QGETDATA requests a peer can send: every data mask and requester for
\* the quorum, and one request each for a type that is not configured, a hash
\* that is no block, and a block that is no quorum's
QGetDataRequests ==
    [llmqType : {LLMQ_TEST}, quorumHash : AnchorHashes, nDataMask : DataMasks,
     proTxHash : {12, 19}]
    \cup [llmqType : {LLMQ_NONE}, quorumHash : AnchorHashes,
          nDataMask : {QUORUM_VERIFICATION_VECTOR}, proTxHash : {12}]
    \cup [llmqType : {LLMQ_TEST}, quorumHash : {0, GetBlockHash(5)},
          nDataMask : {QUORUM_VERIFICATION_VECTOR}, proTxHash : {12}]

ReceiveQGETDATA(pFrom, request, hasEncrypted) ==
    /\ ~crashed
    /\ \E r \in {ProcessMessageQGETDATA(pFrom, request, hasEncrypted, adjustedTime,
                                        minedCommitments, mapQuorumDataRequests,
                                        mapQuorumsCache, evoDb, dkgManager)} :
           /\ mapQuorumDataRequests' = r.requests
           /\ mapQuorumsCache' = r.cache
           /\ evoDb' = r.db
           /\ ret' = [op |-> "QGETDATA", error |-> r.error, nScore |-> r.nScore,
                      sent |-> r.sent, pFrom |-> pFrom]
    /\ UNCHANGED <<qcVarsButRet, scanVars, activeMasternodeInfo, minedCommitments, dkgManager,
                   adjustedTime, crashed>>

NextIn ==
    \/ \E b \in QuorumAnchors : \E c \in MinableCommitments(b) : MineCommitment(b, c)
    \/ Tick
    \/ \E pFrom \in Peers, request \in QGetDataRequests, hasEncrypted \in BOOLEAN :
           ReceiveQGETDATA(pFrom, request, hasEncrypted)

SpecIn == InitIn /\ [][NextIn]_vars

(***************************************************************************)
(* SpecServe: the responses of the serving side.  The clock stands still;  *)
(* masternodes, a quorum watcher and an unverified peer send requests, and *)
(* ret keeps the request, what the DKG session manager had for it, and the *)
(* response.                                                               *)
(***************************************************************************)
QuorumWatcher == [proTxHash |-> 0, qwatch |-> TRUE, versionOk |-> TRUE]
ServedPeers ==
    {VerifiedPeer, QuorumWatcher, [proTxHash |-> 0, qwatch |-> FALSE, versionOk |-> TRUE]}

\* the messages received.  A verified masternode sends every data mask as a
\* member of the quorum, the vector or the contributions as a masternode that
\* is none, and one request each for a type that is not configured, a hash
\* that is no block, and a block that is no quorum's; a watcher sends for the
\* vector and for a type that is not configured; an unverified peer sends
\* for the vector.
ServedMessages ==
    {[pFrom |-> VerifiedPeer, request |-> r, hasEncrypted |-> e] :
        r \in {q \in QGetDataRequests :
                 q.proTxHash = 19 => q.nDataMask \in {QUORUM_VERIFICATION_VECTOR,
                                                       ENCRYPTED_CONTRIBUTIONS}},
        e \in BOOLEAN}
    \cup {m \in [pFrom : ServedPeers \ {VerifiedPeer}, request : QGetDataRequests,
                  hasEncrypted : {FALSE}] :
            /\ m.request.proTxHash = 12
            /\ m.request.nDataMask = QUORUM_VERIFICATION_VECTOR
            /\ m.request.quorumHash \in AnchorHashes
            /\ m.pFrom.qwatch \/ m.request.llmqType = LLMQ_TEST}

ServeQGETDATA(pFrom, request, hasEncrypted) ==
    /\ ~crashed
    /\ hasEncrypted => MaskHas(request.nDataMask, ENCRYPTED_CONTRIBUTIONS)
    /\ \E r \in {ProcessMessageQGETDATA(pFrom, request, hasEncrypted, adjustedTime,
                                        minedCommitments, mapQuorumDataRequests,
                                        mapQuorumsCache, evoDb, dkgManager)} :
           /\ mapQuorumDataRequests' = r.requests
           /\ mapQuorumsCache' = r.cache
           /\ evoDb' = r.db
           /\ ret' = [op |-> "QGETDATA", error |-> r.error, nScore |-> r.nScore,
                      sent |-> r.sent, pFrom |-> pFrom, request |-> request,
                      hasEncrypted |-> hasEncrypted]
    /\ UNCHANGED <<qcVarsButRet, scanVars, activeMasternodeInfo, minedCommitments, dkgManager,
                   adjustedTime, crashed>>

NextServe ==
    \/ \E b \in QuorumAnchors : \E c \in MinableCommitments(b) : MineCommitment(b, c)
    \/ \E msg \in ServedMessages : ServeQGETDATA(msg.pFrom, msg.request, msg.hasEncrypted)

SpecServe == InitIn /\ [][NextServe]_vars

(***************************************************************************)
(* SpecStart: CQuorumManager::Start on machines of every number of         *)
(* hardware threads up to MaxHardwareConcurrency.                          *)
(***************************************************************************)
MaxHardwareConcurrency == 128

StdMin(a, b) == IF b < a THEN b ELSE a

StdMax_Min(a, b) == IF b < a THEN b ELSE a

StdMax(a, b) == IF a < b THEN b ELSE a

\* the size Start gives the worker pool
StartWorkerCount(hardwareConcurrency) ==
    LET halved == hardwareConcurrency \div 2
    IN  StdMax(StdMin(1, halved), 4)

InitStart ==
    /\ qcTx = NoRet
    /\ pindexPrev = nullptr
    /\ pQuorumBaseBlockIndex = nullptr
    /\ checkSigs = FALSE
    /\ ret = NoRet
    /\ activeMasternodeInfo = [proTxHash |-> 0]
    /\ minedCommitments = <<>>
    /\ evoDb = EmptyDb
    /\ dkgManager = <<>>
    /\ mapQuorumsCache = <<>>
    /\ mapQuorumDataRequests = NoRequests
    /\ adjustedTime = 0
    /\ crashed = FALSE
    /\ scanQuorumsCache = <<>>
    /\ masternodeQuorums = {}
    /\ workerPool = <<>>
    /\ quorumThreadInterrupt = FALSE
    /\ fBlockchainSynced = TRUE
    /\ connectedNodes = {}
    /\ quorumsCacheCs = 0
    /\ calls = [i \in CallIds |-> [pc |-> "idle"]]
    /\ quorumPtrs = [allocated |-> 0, cached |-> <<>>]
    /\ hardware_concurrency \in 0..MaxHardwareConcurrency
    /\ gArgs = [dataRecovery |-> TRUE, qvvecSync |-> "Always"]

CallStart ==
    /\ ret = NoRet
    /\ ret' = [op |-> "Start", workerCount |-> StartWorkerCount(hardware_concurrency)]
    /\ UNCHANGED <<qcVarsButRet, mgrVars, scanVars>>

NextStart == CallStart

SpecStart == InitStart /\ [][NextStart]_vars

(***************************************************************************)
(* SpecGet: GetQuorum called from two threads.  Each call goes through     *)
(* the function in the steps that other threads can come between: the      *)
(* test for a mined commitment, taking the lock of the quorum caches, the  *)
(* cache lookup, and the build, which ends with the lock released.         *)
(***************************************************************************)
\* LOCK(quorumsCacheCs): the lock can be taken when no call holds it
CanLock_Always(cs) == TRUE

CanLock(cs) == cs = 0

\* the object the cache entry of the quorum hash points to, or nullptr
CachedPtr(ptrs, quorumHash) ==
    IF quorumHash \in DOMAIN ptrs.cached THEN ptrs.cached[quorumHash] ELSE nullptr

\* std::make_shared<CQuorum> and the insertion of the new object in the cache
MakeShared(ptrs, quorumHash) ==
    [allocated |-> ptrs.allocated + 1,
     cached |-> [h \in DOMAIN ptrs.cached \cup {quorumHash} |->
                    IF h = quorumHash THEN ptrs.allocated + 1 ELSE ptrs.cached[h]]]

\* a thread enters GetQuorum
GetQuorumCalled(i, pindexQuorum) ==
    /\ ~crashed
    /\ calls[i].pc = "idle"
    /\ calls' = [calls EXCEPT ![i] = [pc |-> "called", pindexQuorum |-> pindexQuorum,
                                      pQuorum |-> nullptr, built |-> FALSE]]
    /\ ret' = NoRet
    /\ UNCHANGED <<qcVarsButRet, mgrVars, scanQuorumsCache, masternodeQuorums, workerPool,
                   quorumThreadInterrupt, fBlockchainSynced, connectedNodes, quorumsCacheCs,
                   quorumPtrs, hardware_concurrency, gArgs>>

\* if (!HasQuorum(llmqType, quorumHash)) return nullptr;
GetQuorumChecks(i) ==
    /\ ~crashed
    /\ calls[i].pc = "called"
    /\ calls' = [calls EXCEPT ![i].pc =
                    IF HasQuorum(minedCommitments, LLMQ_TEST, GetBlockHash(calls[i].pindexQuorum))
                    THEN "checked" ELSE "returned"]
    /\ ret' = NoRet
    /\ UNCHANGED <<qcVarsButRet, mgrVars, scanQuorumsCache, masternodeQuorums, workerPool,
                   quorumThreadInterrupt, fBlockchainSynced, connectedNodes, quorumsCacheCs,
                   quorumPtrs, hardware_concurrency, gArgs>>

\* LOCK(quorumsCacheCs);
GetQuorumLocks(i) ==
    /\ ~crashed
    /\ calls[i].pc = "checked"
    /\ CanLock(quorumsCacheCs)
    /\ quorumsCacheCs' = i
    /\ calls' = [calls EXCEPT ![i].pc = "locked"]
    /\ ret' = NoRet
    /\ UNCHANGED <<qcVarsButRet, mgrVars, scanQuorumsCache, masternodeQuorums, workerPool,
                   quorumThreadInterrupt, fBlockchainSynced, connectedNodes, quorumPtrs,
                   hardware_concurrency, gArgs>>

\* if (mapQuorumsCache[llmqType].get(quorumHash, pQuorum)) return pQuorum;
GetQuorumLooksUp(i) ==
    /\ ~crashed
    /\ calls[i].pc = "locked"
    /\ LET quorumHash == GetBlockHash(calls[i].pindexQuorum) IN
       IF CacheHas(mapQuorumsCache, quorumHash)
       THEN /\ mapQuorumsCache' = CacheTouch(mapQuorumsCache, quorumHash)
            /\ calls' = [calls EXCEPT ![i].pc = "returned",
                                      ![i].pQuorum = CachedPtr(quorumPtrs, quorumHash)]
            /\ quorumsCacheCs' = 0
       ELSE /\ calls' = [calls EXCEPT ![i].pc = "missed"]
            /\ UNCHANGED <<mapQuorumsCache, quorumsCacheCs>>
    /\ ret' = NoRet
    /\ UNCHANGED <<qcVarsButRet, activeMasternodeInfo, minedCommitments, evoDb, dkgManager,
                   mapQuorumDataRequests, adjustedTime, crashed, scanQuorumsCache,
                   masternodeQuorums, workerPool, quorumThreadInterrupt, fBlockchainSynced,
                   connectedNodes, quorumPtrs, hardware_concurrency, gArgs>>

\* return BuildQuorumFromCommitment(llmqType, pindexQuorum);
GetQuorumBuilds(i) ==
    /\ ~crashed
    /\ calls[i].pc = "missed"
    /\ \E got \in {BuildQuorumFromCommitment(LLMQ_TEST, calls[i].pindexQuorum, minedCommitments,
                                             mapQuorumsCache, evoDb, dkgManager)} :
           /\ mapQuorumsCache' = got.cache
           /\ evoDb' = got.db
           /\ quorumPtrs' = IF got.isNull THEN quorumPtrs
                            ELSE MakeShared(quorumPtrs, GetBlockHash(calls[i].pindexQuorum))
           /\ calls' = [calls EXCEPT ![i].pc = "returned",
                                     ![i].built = ~got.isNull,
                                     ![i].pQuorum = IF got.isNull THEN nullptr
                                                    ELSE quorumPtrs.allocated + 1]
    /\ quorumsCacheCs' = 0
    /\ ret' = NoRet
    /\ UNCHANGED <<qcVarsButRet, activeMasternodeInfo, minedCommitments, dkgManager,
                   mapQuorumDataRequests, adjustedTime, crashed, scanQuorumsCache,
                   masternodeQuorums, workerPool, quorumThreadInterrupt, fBlockchainSynced,
                   connectedNodes, hardware_concurrency, gArgs>>

\* the block processor mines a commitment while the calls run
MinedMeanwhile(b, c) ==
    /\ MineCommitment(b, c)
    /\ UNCHANGED callVars

NextGet ==
    \/ \E b \in QuorumAnchors : \E c \in MinableCommitments(b) : MinedMeanwhile(b, c)
    \/ \E i \in CallIds, b \in QuorumAnchors : GetQuorumCalled(i, b)
    \/ \E i \in CallIds : GetQuorumChecks(i)
    \/ \E i \in CallIds : GetQuorumLocks(i)
    \/ \E i \in CallIds : GetQuorumLooksUp(i)
    \/ \E i \in CallIds : GetQuorumBuilds(i)

SpecGet == Init /\ [][NextGet]_vars

(***************************************************************************)
(* SpecBuild: GetQuorum for a mined commitment, builds and rebuilds.  The   *)
(* chain and the registry do not change; the quorum leaves the cache and   *)
(* the DKG session manager lets go of its contributions.                   *)
(***************************************************************************)
\* what durable storage holds for the quorum at the start: nothing, a
\* verification vector, or a verification vector and a secret key share
StoredContributions ==
    {EmptyDb} \cup
        {[vvec |-> [k \in DbKeys |-> v], sk |-> [k \in DbKeys |-> sk]] :
            v \in {w \in Vvecs : w.id = 1}, sk \in {0, 1}}

InitBuild ==
    /\ qcTx = NoRet
    /\ pindexPrev = nullptr
    /\ pQuorumBaseBlockIndex = nullptr
    /\ checkSigs = FALSE
    /\ ret = NoRet
    /\ activeMasternodeInfo = [proTxHash |-> 11]
    /\ minedCommitments \in [AnchorHashes -> UNION {MinableCommitments(b) : b \in QuorumAnchors}]
    /\ \A b \in QuorumAnchors : minedCommitments[GetBlockHash(b)].quorumHash = GetBlockHash(b)
    /\ evoDb \in StoredContributions
    /\ dkgManager \in [AnchorHashes -> VerifiedContributions]
    /\ mapQuorumsCache = <<>>
    /\ mapQuorumDataRequests = NoRequests
    /\ adjustedTime = 0
    /\ crashed = FALSE
    /\ scanQuorumsCache = <<>>
    /\ masternodeQuorums = {}
    /\ RecIdle

\* GetQuorum(llmqType, pindexQuorum); ret keeps the quorum returned, whether it
\* was built by this call, and the quorum the call before returned
GetQuorumBuilt(llmqType, pindexQuorum) ==
    /\ \E got \in {GetQuorum(llmqType, pindexQuorum, minedCommitments, mapQuorumsCache, evoDb,
                              dkgManager)} :
           /\ ~got.isNull
           /\ mapQuorumsCache' = got.cache
           /\ evoDb' = got.db
           /\ ret' = [op |-> "GetQuorum", quorumHash |-> GetBlockHash(pindexQuorum),
                      quorum |-> got.quorum,
                      built |-> ~CacheHas(mapQuorumsCache, GetBlockHash(pindexQuorum)),
                      previous |-> IF ret.op = "GetQuorum" THEN ret.quorum ELSE NoRet]
    /\ UNCHANGED <<qcVarsButRet, scanVars, activeMasternodeInfo, minedCommitments, dkgManager,
                   mapQuorumDataRequests, adjustedTime, crashed>>

\* quorums used since push the quorum out of the cache
EvictQuorum(quorumHash) ==
    /\ CacheHas(mapQuorumsCache, quorumHash)
    /\ mapQuorumsCache' = CacheWithout(mapQuorumsCache, quorumHash)
    /\ UNCHANGED <<qcVars, scanVars, activeMasternodeInfo, minedCommitments, evoDb, dkgManager,
                   mapQuorumDataRequests, adjustedTime, crashed>>

\* the DKG session manager's retention window passes
DropContributions(quorumHash) ==
    /\ dkgManager[quorumHash] # NoContributions
    /\ dkgManager' = [dkgManager EXCEPT ![quorumHash] = NoContributions]
    /\ UNCHANGED <<qcVars, scanVars, activeMasternodeInfo, minedCommitments, evoDb,
                   mapQuorumsCache, mapQuorumDataRequests, adjustedTime, crashed>>

NextBuild ==
    \/ \E pindexQuorum \in QuorumAnchors : GetQuorumBuilt(LLMQ_TEST, pindexQuorum)
    \/ \E quorumHash \in AnchorHashes : EvictQuorum(quorumHash)
    \/ \E quorumHash \in AnchorHashes : DropContributions(quorumHash)

SpecBuild == InitBuild /\ [][NextBuild]_vars

(***************************************************************************)
(* SpecScan: ScanQuorums on a chain that does not change.  Any of the      *)
(* quorums of the active chain has its commitment mined; nothing is stored *)
(* and the DKG sessions have no contributions.                             *)
(***************************************************************************)
\* the commitment of the quorum anchored at b in which every member is valid
FullCommitment(b) ==
    CHOOSE c \in MinableCommitments(b) : CountValidMembers(c) = Len(c.validMembers)

ScanDbKeys ==
    {<<LLMQ_TEST, GetBlockHash(b), GetAllQuorumMembers(GetLLMQParams(LLMQ_TEST), b)>> :
        b \in ScanAnchors}

InitScan ==
    /\ qcTx = NoRet
    /\ pindexPrev = nullptr
    /\ pQuorumBaseBlockIndex = nullptr
    /\ checkSigs = FALSE
    /\ ret = NoRet
    /\ activeMasternodeInfo = [proTxHash |-> 11]
    /\ \E anchors \in SUBSET ScanAnchors :
          minedCommitments =
              [h \in ScanAnchorHashes |->
                  IF LookupBlockIndex(h) \in anchors THEN FullCommitment(LookupBlockIndex(h))
                  ELSE NoCommitment]
    /\ evoDb = [vvec |-> [k \in ScanDbKeys |-> NoVvec], sk |-> [k \in ScanDbKeys |-> 0]]
    /\ dkgManager = [h \in ScanAnchorHashes |-> NoContributions]
    /\ mapQuorumsCache = <<>>
    /\ mapQuorumDataRequests = NoRequests
    /\ adjustedTime = 0
    /\ crashed = FALSE
    /\ scanQuorumsCache = <<>>
    /\ masternodeQuorums = {}
    /\ RecIdle

\* the blocks ScanQuorums is asked to scan from
ScanStarts == {chainActive[i] : i \in 4..Len(chainActive)}

CallScanQuorums(llmqType, pindexStart, nCountRequested) ==
    /\ \E r \in {ScanQuorums(llmqType, pindexStart, nCountRequested, minedCommitments,
                             scanQuorumsCache, mapQuorumsCache, evoDb, dkgManager)} :
           /\ scanQuorumsCache' = r.scanCache
           /\ mapQuorumsCache' = r.cache
           /\ evoDb' = r.db
           /\ ret' = [op |-> "ScanQuorums", llmqType |-> llmqType, pindexStart |-> pindexStart,
                      nCountRequested |-> nCountRequested, result |-> r.result,
                      emplaced |-> r.emplaced,
                      cached |-> IF CacheHas(scanQuorumsCache, GetBlockHash(pindexStart))
                                 THEN CacheValue(scanQuorumsCache, GetBlockHash(pindexStart))
                                 ELSE <<>>]
    /\ UNCHANGED <<qcVarsButRet, activeMasternodeInfo, minedCommitments, dkgManager,
                   mapQuorumDataRequests, adjustedTime, crashed, masternodeQuorums, recVars>>

NextScan ==
    \E pindexStart \in ScanStarts \cup {nullptr}, nCountRequested \in 0..MaxCount :
        CallScanQuorums(LLMQ_TEST, pindexStart, nCountRequested)

SpecScan == InitScan /\ [][NextScan]_vars

(***************************************************************************)
(* SpecReorg: ScanQuorums while the chain is reorganized.  ScanQuorums      *)
(* holds no lock between its steps, so a call goes through the function in *)
(* two: from its start to the scan of the mined commitments, and from the  *)
(* calls of GetQuorum to its end.  A reorganization takes back the         *)
(* commitment mined last; the block can be connected again.                *)
(***************************************************************************)
\* ScanQuorums up to the scan of the mined commitments: what it returns at
\* once, or the locals it goes on with
ScanQuorumsScan(llmqType, pindexStart, nCountRequested, mined, scanCache) ==
    LET key == GetBlockHash(pindexStart)
        fCacheExists == CacheHas(scanCache, key)
        cached == IF fCacheExists THEN CacheValue(scanCache, key) ELSE <<>>
        nScanCommitments ==
            IF fCacheExists
            THEN IF Len(cached) > 0 THEN nCountRequested - Len(cached) ELSE nCountRequested
            ELSE ScanCountOnMiss(nCountRequested)
        pIndexScanCommitments ==
            IF fCacheExists /\ Len(cached) > 0 THEN ScanRestFrom(pindexStart, cached)
            ELSE pindexStart
    IN
    IF pindexStart = nullptr \/ nCountRequested = 0
    THEN [returned |-> TRUE, result |-> <<>>, scanCache |-> scanCache]
    ELSE IF fCacheExists /\ Len(cached) = nCountRequested
    THEN [returned |-> TRUE, result |-> cached, scanCache |-> CacheTouch(scanCache, key)]
    ELSE IF fCacheExists /\ Len(cached) > nCountRequested
    THEN [returned |-> TRUE, result |-> CachedPrefix(cached, nCountRequested),
          scanCache |-> CacheTouch(scanCache, key)]
    ELSE [returned |-> FALSE, scanCache |-> CacheTouch(scanCache, key),
          fCacheExists |-> fCacheExists, vecResultQuorums |-> cached,
          quorumIndexes |-> GetMinedCommitmentsUntilBlock(llmqType, pIndexScanCommitments,
                                                          nScanCommitments, mined)]

\* ScanQuorums from the calls of GetQuorum on: asserted is the failure of
\* assert(quorum != nullptr)
ScanQuorumsCollect(llmqType, pindexStart, nCountRequested, scan, mined, scanCache, cache, db, dkg) ==
    LET vecResultQuorums == scan.vecResultQuorums \o scan.quorumIndexes
        emplaced == Len(vecResultQuorums) > 0 /\ ~scan.fCacheExists
        asserted == \E i \in DOMAIN scan.quorumIndexes :
                        ~HasQuorum(mined, llmqType, GetBlockHash(scan.quorumIndexes[i]))
    IN  TheOnly({[asserted |-> asserted,
                  result |-> FirstN(vecResultQuorums, nCountRequested),
                  scanCache |->
                      IF emplaced /\ ~asserted
                      THEN CacheInsert(scanCache, GetBlockHash(pindexStart),
                                       SubSeq(vecResultQuorums, 1,
                                              CacheEndIndex(Len(vecResultQuorums))))
                      ELSE scanCache,
                  cache |-> built.cache, db |-> built.db] :
                    built \in {GetQuorums(llmqType, scan.quorumIndexes, mined, cache, db, dkg)}})

\* a thread calls ScanQuorums and gets as far as the scan
ScanQuorumsScans(i, pindexStart, nCountRequested) ==
    /\ ~crashed
    /\ calls[i].pc = "idle"
    /\ \E scan \in {ScanQuorumsScan(LLMQ_TEST, pindexStart, nCountRequested, minedCommitments,
                                    scanQuorumsCache)} :
           /\ scanQuorumsCache' = scan.scanCache
           /\ IF scan.returned
              THEN /\ ret' = [op |-> "ScanQuorums", pindexStart |-> pindexStart,
                              nCountRequested |-> nCountRequested, result |-> scan.result,
                              fromCache |-> TRUE]
                   /\ calls' = calls
              ELSE /\ ret' = NoRet
                   /\ calls' = [calls EXCEPT ![i] = [pc |-> "scanned", pindexStart |-> pindexStart,
                                                     nCountRequested |-> nCountRequested,
                                                     scan |-> scan]]
    /\ UNCHANGED <<qcVarsButRet, mgrVars, masternodeQuorums, workerPool, quorumThreadInterrupt,
                   fBlockchainSynced, connectedNodes, quorumsCacheCs, quorumPtrs,
                   hardware_concurrency, gArgs>>

\* the thread goes on: GetQuorum for every block the scan gave, then the rest
ScanQuorumsGets(i) ==
    /\ ~crashed
    /\ calls[i].pc = "scanned"
    /\ \E r \in {ScanQuorumsCollect(LLMQ_TEST, calls[i].pindexStart, calls[i].nCountRequested,
                                    calls[i].scan, minedCommitments, scanQuorumsCache,
                                    mapQuorumsCache, evoDb, dkgManager)} :
           /\ scanQuorumsCache' = r.scanCache
           /\ mapQuorumsCache' = r.cache
           /\ evoDb' = r.db
           /\ crashed' = r.asserted
           /\ ret' = IF r.asserted
                     THEN [op |-> "assert", pindexStart |-> calls[i].pindexStart,
                           quorumIndexes |-> calls[i].scan.quorumIndexes]
                     ELSE [op |-> "ScanQuorums", pindexStart |-> calls[i].pindexStart,
                           nCountRequested |-> calls[i].nCountRequested, result |-> r.result,
                           fromCache |-> FALSE]
    /\ calls' = [calls EXCEPT ![i] = [pc |-> "idle"]]
    /\ UNCHANGED <<qcVarsButRet, activeMasternodeInfo, minedCommitments, dkgManager,
                   mapQuorumDataRequests, adjustedTime, masternodeQuorums, workerPool,
                   quorumThreadInterrupt, fBlockchainSynced, connectedNodes, quorumsCacheCs,
                   quorumPtrs, hardware_concurrency, gArgs>>

\* a reorganization disconnects the block that mined the last commitment
DisconnectLastMined(b) ==
    /\ \A later \in ScanAnchors :
           later > b => minedCommitments[GetBlockHash(later)] = NoCommitment
    /\ UndoCommitment(b)

\* the block that mined the next commitment is connected
ConnectNextMined(b) ==
    /\ \A later \in ScanAnchors :
           later > b => minedCommitments[GetBlockHash(later)] = NoCommitment
    /\ MineCommitment(b, FullCommitment(b))

\* the blocks ScanQuorums is asked to scan from, and the counts
ReorgScanStarts == {8, 10}
ReorgCounts == {1, 2}

NextReorg ==
    \/ \E pindexStart \in ReorgScanStarts, nCountRequested \in ReorgCounts :
           ScanQuorumsScans(1, pindexStart, nCountRequested)
    \/ ScanQuorumsGets(1)
    \/ \E b \in ScanAnchors : DisconnectLastMined(b)
    \/ \E b \in ScanAnchors : ConnectNextMined(b)

SpecReorg == InitScan /\ [][NextReorg]_vars

(***************************************************************************)
(* SpecConn: EnsureQuorumConnections at the blocks of the active chain,    *)
(* while the masternode enters and leaves the masternode list and the DKG  *)
(* sessions connect the quorum of the round in progress.                   *)
(***************************************************************************)
InitConn ==
    /\ qcTx = NoRet
    /\ pindexPrev = nullptr
    /\ pQuorumBaseBlockIndex = nullptr
    /\ checkSigs = FALSE
    /\ ret = NoRet
    /\ activeMasternodeInfo \in [proTxHash : ActiveProTxHashes]
    /\ \E anchors \in SUBSET ScanAnchors :
          minedCommitments =
              [h \in ScanAnchorHashes |->
                  IF LookupBlockIndex(h) \in anchors THEN FullCommitment(LookupBlockIndex(h))
                  ELSE NoCommitment]
    /\ evoDb = [vvec |-> [k \in ScanDbKeys |-> NoVvec], sk |-> [k \in ScanDbKeys |-> 0]]
    /\ dkgManager = [h \in ScanAnchorHashes |-> NoContributions]
    /\ mapQuorumsCache = <<>>
    /\ mapQuorumDataRequests = NoRequests
    /\ adjustedTime = 0
    /\ crashed = FALSE
    /\ scanQuorumsCache = <<>>
    /\ masternodeQuorums = {}
    /\ RecIdle

\* the masternode enters or leaves the masternode list
SetProTxHash(proTxHash) ==
    /\ activeMasternodeInfo' = [proTxHash |-> proTxHash]
    /\ ret' = [op |-> "SetProTxHash"]
    /\ UNCHANGED <<qcVarsButRet, scanVars, minedCommitments, evoDb, dkgManager,
                   mapQuorumsCache, mapQuorumDataRequests, adjustedTime, crashed>>

\* a DKG session starts for the quorum anchored at pindexQuorum
StartDkgSession(pindexQuorum) ==
    /\ \E ensured \in {CLLMQUtils_EnsureQuorumConnections(LLMQ_TEST, pindexQuorum,
                             activeMasternodeInfo.proTxHash, masternodeQuorums)} :
           /\ ensured[1]
           /\ masternodeQuorums' = ensured[2]
    /\ ret' = [op |-> "StartDkgSession", pindexQuorum |-> pindexQuorum]
    /\ UNCHANGED <<qcVarsButRet, mgrVars, scanQuorumsCache, recVars>>

CallEnsureQuorumConnections(llmqType, pindexNew) ==
    /\ \E r \in {EnsureQuorumConnections(llmqType, pindexNew, activeMasternodeInfo.proTxHash,
                                         masternodeQuorums, minedCommitments, scanQuorumsCache,
                                         mapQuorumsCache, evoDb, dkgManager)} :
           /\ masternodeQuorums' = r.connman
           /\ scanQuorumsCache' = r.scanCache
           /\ mapQuorumsCache' = r.cache
           /\ evoDb' = r.db
           /\ ret' = [op |-> "EnsureQuorumConnections", llmqType |-> llmqType,
                      pindexNew |-> pindexNew, lastQuorums |-> r.lastQuorums]
    /\ UNCHANGED <<qcVarsButRet, activeMasternodeInfo, minedCommitments, dkgManager,
                   mapQuorumDataRequests, adjustedTime, crashed, recVars>>

NextConn ==
    \/ \E proTxHash \in ActiveProTxHashes : SetProTxHash(proTxHash)
    \/ \E pindexQuorum \in ScanAnchors : StartDkgSession(pindexQuorum)
    \/ \E pindexNew \in ScanStarts : CallEnsureQuorumConnections(LLMQ_TEST, pindexNew)

SpecConn == InitConn /\ [][NextConn]_vars

(***************************************************************************)
(* SpecRec: quorum data recovery.  A masternode whose durable storage      *)
(* lacks material of the mined quorums follows the tip; each new tip runs  *)
(* UpdatedBlockTip, which starts recovery tasks; the tasks run on the      *)
(* worker pool, one step from one blocking call to the next, while nodes   *)
(* connect, answer with QDATA, the clock runs and Stop may be called.      *)
(*                                                                         *)
(* The clock: adjustedTime stays where it is and a tick makes every stored *)
(* time one older, until it is past what the code compares it with; so     *)
(* the clock can run for ever.                                             *)
(***************************************************************************)
\* CQuorumManager::Start: the threads of the worker pool
workerCount == 4
\* seconds a recovery task waits for the answer of one member, scaled
nRequestTimeout == 1
\* the caches hold signingActiveQuorumCount + 1 entries
signingActiveQuorumCount == QuorumsCacheSize - 1
QuorumDataRecoveryEnabled == gArgs.dataRecovery
\* CLLMQUtils::GetEnabledQuorumVvecSyncEntries: the types with a sync mode set
QvvecSyncModes == {"Always", "OnlyIfTypeMember"}
mapQuorumVvecSync ==
    [llmqType \in {t \in llmqs : gArgs.qvvecSync \in QvvecSyncModes} |-> gArgs.qvvecSync]

\* the masternodes that connect
RecoveryPeers == {11, 12}
Node(proTxHash) == [proTxHash |-> proTxHash, qwatch |-> FALSE, versionOk |-> TRUE]

\* deterministicMNManager->GetListForBlock: the valid masternodes at the block
GetListForBlock(pIndex) == {10 + i : i \in 1..RegisteredAt(pIndex)}

\* std::sort of a set of hashes
SortedSeq(S) ==
    CHOOSE s \in [1..Cardinality(S) -> S] : \A i, j \in 1..Cardinality(S) : i < j => s[i] < s[j]

GetQuorumRecoveryStartOffset(pQuorum, pIndex, myProTxHash) ==
    LET vecProTxHashes == GetListForBlock(pIndex)
        nIndex == IF myProTxHash \in vecProTxHashes
                  THEN Cardinality({h \in vecProTxHashes : h < myProTxHash})
                  ELSE 0
    IN  nIndex % Len(pQuorum.qc.validMembers)

\* a task is done once its function returned or the queue dropped it
Live(task) == task.pc # "done"

\* the quorum a task holds: the cached one, or the one only the task keeps
\* alive since the cache let go of it
TaskQuorum(task, cache) ==
    IF task.pQuorum # NoRet THEN task.pQuorum ELSE CacheValue(cache, task.quorumHash)

\* the tasks after the cache changed: a task whose quorum the cache dropped,
\* or replaced by a rebuilt one, keeps its own
KeepAlive(pool, before, after) ==
    [i \in DOMAIN pool |->
        IF /\ Live(pool[i])
           /\ pool[i].pQuorum = NoRet
           /\ \/ ~CacheHas(after, pool[i].quorumHash)
              \/ ~CacheValue(after, pool[i].quorumHash).fQuorumDataRecoveryThreadRunning
        THEN [pool[i] EXCEPT !.pQuorum = CacheValue(before, pool[i].quorumHash)]
        ELSE pool[i]]

\* the lambda StartQuorumDataRecoveryThread pushes, before a worker runs it
NewTask(quorumHash, pIndex, nDataMaskIn) ==
    [pc |-> "queued", outcome |-> "", quorumHash |-> quorumHash, pQuorum |-> NoRet,
     pIndex |-> pIndex, nDataMaskIn |-> nDataMaskIn, nDataMask |-> nDataMaskIn, nTries |-> 0,
     nTimeLastSuccess |-> 0, pCurrentMemberHash |-> nullptr, vecMemberHashes |-> <<>>,
     nMyStartOffset |-> 0, selected |-> <<>>]

\* the task once it is over: its locals are gone
Finished(task, outcome) ==
    [NewTask(task.quorumHash, task.pIndex, task.nDataMaskIn) EXCEPT
        !.pc = "done", !.outcome = outcome, !.nDataMask = 0]

\* StartQuorumDataRecoveryThread: returns [cache, pool]
StartQuorumDataRecoveryThread(quorumHash, pIndex, nDataMaskIn, cache, pool) ==
    LET pQuorum == CacheValue(cache, quorumHash) IN
    IF pQuorum.fQuorumDataRecoveryThreadRunning
    THEN [cache |-> cache, pool |-> pool]
    ELSE [cache |-> CachePut(cache, quorumHash,
                             [pQuorum EXCEPT !.fQuorumDataRecoveryThreadRunning = TRUE]),
          pool |-> Append(pool, NewTask(quorumHash, pIndex, nDataMaskIn))]

\* the data TriggerQuorumDataRecoveryThreads finds missing in a quorum
DataNeeded_AnyoneAsksShare(pQuorum, proTxHash, fWeAreQuorumTypeMember) ==
    LET fWeAreQuorumMember == IsValidMember(pQuorum, proTxHash)
        fSyncForTypeEnabled == pQuorum.qc.llmqType \in DOMAIN mapQuorumVvecSync
        syncMode == IF fSyncForTypeEnabled THEN mapQuorumVvecSync[pQuorum.qc.llmqType]
                    ELSE "Invalid"
        fSyncCurrent == \/ syncMode = "Always"
                        \/ syncMode = "OnlyIfTypeMember" /\ fWeAreQuorumTypeMember
    IN  (IF /\ fWeAreQuorumMember \/ (fSyncForTypeEnabled /\ fSyncCurrent)
            /\ ~HasVerificationVector(pQuorum)
         THEN QUORUM_VERIFICATION_VECTOR ELSE 0)
        + (IF ~SkIsValid(pQuorum.skShare) THEN ENCRYPTED_CONTRIBUTIONS ELSE 0)

DataNeeded(pQuorum, proTxHash, fWeAreQuorumTypeMember) ==
    LET fWeAreQuorumMember == IsValidMember(pQuorum, proTxHash)
        fSyncForTypeEnabled == pQuorum.qc.llmqType \in DOMAIN mapQuorumVvecSync
        syncMode == IF fSyncForTypeEnabled THEN mapQuorumVvecSync[pQuorum.qc.llmqType]
                    ELSE "Invalid"
        fSyncCurrent == \/ syncMode = "Always"
                        \/ syncMode = "OnlyIfTypeMember" /\ fWeAreQuorumTypeMember
    IN  (IF /\ fWeAreQuorumMember \/ (fSyncForTypeEnabled /\ fSyncCurrent)
            /\ ~HasVerificationVector(pQuorum)
         THEN QUORUM_VERIFICATION_VECTOR ELSE 0)
        + (IF fWeAreQuorumMember /\ ~SkIsValid(pQuorum.skShare)
           THEN ENCRYPTED_CONTRIBUTIONS ELSE 0)

RECURSIVE TriggerEach(_, _, _, _, _, _)
TriggerEach(vecQuorums, pIndex, proTxHash, fWeAreQuorumTypeMember, cache, pool) ==
    IF vecQuorums = <<>> THEN [cache |-> cache, pool |-> pool]
    ELSE LET quorumHash == GetBlockHash(Head(vecQuorums))
             pQuorum == CacheValue(cache, quorumHash)
             nDataMask == DataNeeded(pQuorum, proTxHash, fWeAreQuorumTypeMember)
             started == IF pQuorum.fQuorumDataRecoveryThreadRunning \/ nDataMask = 0
                        THEN [cache |-> cache, pool |-> pool]
                        ELSE StartQuorumDataRecoveryThread(quorumHash, pIndex, nDataMask,
                                                           cache, pool)
         IN  TriggerEach(Tail(vecQuorums), pIndex, proTxHash, fWeAreQuorumTypeMember,
                         started.cache, started.pool)

\* the loop of TriggerQuorumDataRecoveryThreads over the quorums scanned
TriggerScanned(scan, pIndex, proTxHash, cache, pool) ==
    LET fWeAreQuorumTypeMember ==
            \E i \in DOMAIN scan.result :
                IsValidMember(CacheValue(scan.cache, GetBlockHash(scan.result[i])), proTxHash)
        each == TriggerEach(scan.result, pIndex, proTxHash, fWeAreQuorumTypeMember, scan.cache,
                            KeepAlive(pool, cache, scan.cache))
    IN  [scanCache |-> scan.scanCache, db |-> scan.db, cache |-> each.cache, pool |-> each.pool]

\* TriggerQuorumDataRecoveryThreads: returns [scanCache, cache, db, pool]
TriggerQuorumDataRecoveryThreads(pIndex, proTxHash, mined, scanCache, cache, db, dkg, pool) ==
    IF ~fMasternodeMode \/ ~QuorumDataRecoveryEnabled \/ pIndex = nullptr
    THEN [scanCache |-> scanCache, cache |-> cache, db |-> db, pool |-> pool]
    ELSE TheOnly({TriggerScanned(scan, pIndex, proTxHash, cache, pool) :
                     scan \in {ScanQuorums(LLMQ_TEST, pIndex, signingActiveQuorumCount + 1,
                                           mined, scanCache, cache, db, dkg)}})

\* the request table without its expired entries
SweepExpired_All(requests, now) == [k \in DOMAIN requests |-> NoRequest]

SweepExpired(requests, now) ==
    [k \in DOMAIN requests |->
        IF requests[k] # NoRequest /\ IsExpired(requests[k], now) THEN NoRequest
        ELSE requests[k]]

\* UpdatedBlockTip once the connections are ensured: the sweep of the request
\* table and TriggerQuorumDataRecoveryThreads
TipEnsured(e, pindexNew, proTxHash, now, requests, mined, cache, dkg, pool) ==
    TheOnly({[connman |-> e.connman, requests |-> SweepExpired(requests, now),
              scanCache |-> t.scanCache, cache |-> t.cache, db |-> t.db, pool |-> t.pool] :
                 t \in {TriggerQuorumDataRecoveryThreads(pindexNew, proTxHash, mined, e.scanCache,
                                                         e.cache, e.db, dkg,
                                                         KeepAlive(pool, cache, e.cache))}})

\* UpdatedBlockTip: returns [connman, requests, scanCache, cache, db, pool]
UpdatedBlockTip(pindexNew, synced, proTxHash, now, connman, requests, mined, scanCache, cache, db, dkg, pool) ==
    IF ~synced
    THEN [connman |-> connman, requests |-> requests, scanCache |-> scanCache, cache |-> cache,
          db |-> db, pool |-> pool]
    ELSE TheOnly({TipEnsured(e, pindexNew, proTxHash, now, requests, mined, cache, dkg, pool) :
                     e \in {EnsureQuorumConnections(LLMQ_TEST, pindexNew, proTxHash, connman,
                                                    mined, scanCache, cache, db, dkg)}})

\* index into the candidates of the member to ask next
CandidateIndex_Start(nMyStartOffset, nTries, size) == nMyStartOffset % size

CandidateIndex(nMyStartOffset, nTries, size) == (nMyStartOffset + nTries) % size

\* the valid members other than this masternode, sorted
Candidates(pQuorum, proTxHash) ==
    SortedSeq({pQuorum.members[i] : i \in {j \in DOMAIN pQuorum.members :
                  /\ IsValidMember(pQuorum, pQuorum.members[j])
                  /\ pQuorum.members[j] # proTxHash}})

\* the working mask without the bits of the data the quorum holds by now
DataMissing(nDataMask, pQuorum) ==
    LET vvecDone == IF /\ MaskHas(nDataMask, QUORUM_VERIFICATION_VECTOR)
                       /\ HasVerificationVector(pQuorum)
                    THEN nDataMask - QUORUM_VERIFICATION_VECTOR ELSE nDataMask
    IN  IF MaskHas(vvecDone, ENCRYPTED_CONTRIBUTIONS) /\ SkIsValid(pQuorum.skShare)
        THEN vvecDone - ENCRYPTED_CONTRIBUTIONS ELSE vvecDone

\* g_connman->ForEachNode of the recovery loop, for the task as it stands:
\* returns [task, sent, requests, cache, db, nodes]
AskCurrentMember(task, pQuorum, proTxHash, now, nodes, mined, requests, cache, db, dkg) ==
    LET idle == [task |-> task, sent |-> NoRequest, requests |-> requests, cache |-> cache,
                 db |-> db, nodes |-> nodes]
        key == <<task.pCurrentMemberHash, TRUE>>
    IN
    IF task.pCurrentMemberHash = nullptr \/ task.pCurrentMemberHash \notin nodes THEN idle
    ELSE TheOnly({
        IF r.value
        THEN [task |-> [task EXCEPT !.nTimeLastSuccess = now], sent |-> r.sent,
              requests |-> r.requests, cache |-> r.cache, db |-> r.db, nodes |-> nodes]
        ELSE IF requests[key] = NoRequest \/ requests[key].fProcessed
        THEN [task |-> [task EXCEPT !.pCurrentMemberHash = nullptr], sent |-> NoRequest,
              requests |-> r.requests, cache |-> r.cache, db |-> r.db,
              nodes |-> nodes \ {task.pCurrentMemberHash}]
        ELSE [idle EXCEPT !.cache = r.cache, !.db = r.db] :
            r \in {RequestQuorumData(Node(task.pCurrentMemberHash), pQuorum.qc.llmqType,
                                     pQuorum.pindexQuorum, task.nDataMask, proTxHash, now, mined,
                                     requests, cache, db, dkg)}})

\* the commitment mined for the quorum at b with the members of validMembers valid
CommitmentWithValid(b, validMembers) ==
    CHOOSE c \in MinableCommitments(b) : c.validMembers = validMembers

\* the mined commitments: those of the quorums at anchors, every member valid
\* but in the quorums of fewValid, where only the last params.minSize are
MinedAt(anchors, fewValid) ==
    [h \in ScanAnchorHashes |->
        IF LookupBlockIndex(h) \notin anchors THEN NoCommitment
        ELSE IF LookupBlockIndex(h) \in fewValid
        THEN CommitmentWithValid(LookupBlockIndex(h),
                                 [i \in 1..LLMQSize |-> i > LLMQSize - LLMQMinSize])
        ELSE FullCommitment(LookupBlockIndex(h))]

\* durable storage with the verification vector of the quorums at anchors
VvecStoredFor(anchors) ==
    [vvec |-> [k \in ScanDbKeys |->
                  IF LookupBlockIndex(k[2]) \in anchors
                  THEN [id |-> 1, size |-> GetLLMQParams(LLMQ_TEST).threshold]
                  ELSE NoVvec],
     sk |-> [k \in ScanDbKeys |-> 0]]

\* The masternode when it starts to follow the tip:
\*   no member of the three quorums mined, it lacks the vector of one;
\*   a member of the two quorums mined, it lacks the share of one and
\*   everything of the other;
\*   the only valid member of the one quorum mined, it lacks everything.
RecoveryStarts ==
    {[proTxHash |-> 14, mined |-> MinedAt({3, 7, 9}, {}), db |-> VvecStoredFor({3, 9})],
     [proTxHash |-> 12, mined |-> MinedAt({7, 9}, {}), db |-> VvecStoredFor({9})],
     [proTxHash |-> 12, mined |-> MinedAt({3}, {3}), db |-> VvecStoredFor({})]}

\* what the manager's variables do not change in while data is recovered
recFixed ==
    <<qcVarsButRet, activeMasternodeInfo, minedCommitments, dkgManager, adjustedTime, callVars>>

InitRec ==
    /\ qcTx = NoRet
    /\ pindexPrev = nullptr
    /\ pQuorumBaseBlockIndex = nullptr
    /\ checkSigs = FALSE
    /\ ret = NoRet
    /\ \E start \in RecoveryStarts :
           /\ activeMasternodeInfo = [proTxHash |-> start.proTxHash]
           /\ minedCommitments = start.mined
           /\ evoDb = start.db
    /\ dkgManager = [h \in ScanAnchorHashes |-> NoContributions]
    /\ mapQuorumsCache = <<>>
    /\ mapQuorumDataRequests = [k \in RecoveryPeers \X {TRUE} |-> NoRequest]
    /\ adjustedTime = MaxTime
    /\ crashed = FALSE
    /\ scanQuorumsCache = <<>>
    /\ masternodeQuorums = {}
    /\ workerPool = <<>>
    /\ quorumThreadInterrupt = FALSE
    /\ fBlockchainSynced = TRUE
    /\ connectedNodes = {}
    /\ CallsIdle

\* the chain's tip becomes pindexNew
NewBlockTip(pindexNew) ==
    /\ ~crashed
    /\ \A i \in DOMAIN scanQuorumsCache : scanQuorumsCache[i].key < GetBlockHash(pindexNew)
    /\ \E r \in {UpdatedBlockTip(pindexNew, fBlockchainSynced, activeMasternodeInfo.proTxHash,
                                 adjustedTime, masternodeQuorums, mapQuorumDataRequests,
                                 minedCommitments, scanQuorumsCache, mapQuorumsCache, evoDb,
                                 dkgManager, workerPool)} :
           /\ masternodeQuorums' = r.connman
           /\ mapQuorumDataRequests' = r.requests
           /\ scanQuorumsCache' = r.scanCache
           /\ mapQuorumsCache' = r.cache
           /\ evoDb' = r.db
           /\ workerPool' = r.pool
    /\ ret' = [op |-> "UpdatedBlockTip", pindexNew |-> pindexNew, synced |-> fBlockchainSynced,
               expired |-> {k \in DOMAIN mapQuorumDataRequests :
                               /\ mapQuorumDataRequests[k] # NoRequest
                               /\ IsExpired(mapQuorumDataRequests[k], adjustedTime)}]
    /\ UNCHANGED <<recFixed, crashed, quorumThreadInterrupt, fBlockchainSynced, connectedNodes>>

\* masternodeSync finishes, or is reset
SetBlockchainSynced(synced) ==
    /\ ~crashed
    /\ fBlockchainSynced # synced
    /\ fBlockchainSynced' = synced
    /\ ret' = NoRet
    /\ UNCHANGED <<recFixed, evoDb, mapQuorumsCache, mapQuorumDataRequests, crashed,
                   scanQuorumsCache, masternodeQuorums, workerPool, quorumThreadInterrupt,
                   connectedNodes>>

\* CQuorumManager::Stop: the interrupt is raised and the queue is cleared
Stop ==
    /\ ~crashed
    /\ ~quorumThreadInterrupt
    /\ quorumThreadInterrupt' = TRUE
    /\ workerPool' = [i \in DOMAIN workerPool |->
                         IF workerPool[i].pc = "queued" THEN Finished(workerPool[i], "Cleared")
                         ELSE workerPool[i]]
    /\ ret' = NoRet
    /\ UNCHANGED <<recFixed, evoDb, mapQuorumsCache, mapQuorumDataRequests, crashed,
                   scanQuorumsCache, masternodeQuorums, fBlockchainSynced, connectedNodes>>

\* a member a task asks connects
ConnectNode(proTxHash) ==
    /\ ~crashed
    /\ proTxHash \notin connectedNodes
    /\ \E i \in DOMAIN workerPool : workerPool[i].pCurrentMemberHash = proTxHash
    /\ connectedNodes' = connectedNodes \cup {proTxHash}
    /\ ret' = NoRet
    /\ UNCHANGED <<recFixed, evoDb, mapQuorumsCache, mapQuorumDataRequests, crashed,
                   scanQuorumsCache, masternodeQuorums, workerPool, quorumThreadInterrupt,
                   fBlockchainSynced>>

\* a second passes: what was stored with a time is a second older
Age(nTime, limit) == IF adjustedTime - nTime >= limit THEN nTime ELSE nTime - 1

TickRecovery ==
    /\ ~crashed
    /\ mapQuorumDataRequests' =
           [k \in DOMAIN mapQuorumDataRequests |->
               IF mapQuorumDataRequests[k] = NoRequest THEN NoRequest
               ELSE [mapQuorumDataRequests[k] EXCEPT !.nTime = Age(@, EXPIRATION_TIMEOUT)]]
    /\ workerPool' = [i \in DOMAIN workerPool |->
                         [workerPool[i] EXCEPT !.nTimeLastSuccess =
                             IF Live(workerPool[i]) THEN Age(@, nRequestTimeout + 1) ELSE @]]
    /\ ret' = NoRet
    /\ UNCHANGED <<recFixed, evoDb, mapQuorumsCache, crashed, scanQuorumsCache,
                   masternodeQuorums, quorumThreadInterrupt, fBlockchainSynced, connectedNodes>>

\* what a member answers to a request: the data asked for, or an error
Answer(request, nError) ==
    IF nError # "NONE" THEN [vvec |-> NoVvec, decryptOk |-> FALSE, sk |-> 0]
    ELSE [vvec |-> IF MaskHas(request.nDataMask, QUORUM_VERIFICATION_VECTOR)
                   THEN [id |-> 1, size |-> GetLLMQParams(LLMQ_TEST).threshold]
                   ELSE NoVvec,
          decryptOk |-> MaskHas(request.nDataMask, ENCRYPTED_CONTRIBUTIONS),
          sk |-> IF MaskHas(request.nDataMask, ENCRYPTED_CONTRIBUTIONS) THEN 1 ELSE 0]

\* a connected member answers the request the table holds for it
AnswerQDATA(proTxHash, nError) ==
    /\ ~crashed
    /\ proTxHash \in connectedNodes
    /\ mapQuorumDataRequests[<<proTxHash, TRUE>>] # NoRequest
    /\ ~mapQuorumDataRequests[<<proTxHash, TRUE>>].fProcessed
    /\ \E request \in {mapQuorumDataRequests[<<proTxHash, TRUE>>]} :
       \E h \in ProcessMessageQDATA(
                   Node(proTxHash),
                   [llmqType |-> request.llmqType, quorumHash |-> request.quorumHash,
                    nDataMask |-> request.nDataMask, proTxHash |-> request.proTxHash,
                    nError |-> nError],
                   Answer(request, nError), activeMasternodeInfo.proTxHash,
                   mapQuorumDataRequests, mapQuorumsCache, evoDb) :
           /\ mapQuorumDataRequests' = h.requests
           /\ mapQuorumsCache' = h.cache
           /\ evoDb' = h.db
           /\ crashed' = h.crashed
           /\ ret' = [op |-> "QDATA", error |-> h.error]
    /\ UNCHANGED <<recFixed, scanQuorumsCache, masternodeQuorums, workerPool,
                   quorumThreadInterrupt, fBlockchainSynced, connectedNodes>>

\* what a step of a recovery task leaves in ret
TaskStep(i, selected, sent, outcome) ==
    [op |-> "Task", task |-> i, pc |-> workerPool[i].pc, interrupted |-> quorumThreadInterrupt,
     nDataMaskIn |-> workerPool[i].nDataMaskIn,
     candidates |-> Len(workerPool[i].vecMemberHashes), selected |-> selected, sent |-> sent,
     outcome |-> outcome,
     quorum |-> IF outcome = "" THEN NoRet ELSE TaskQuorum(workerPool[i], mapQuorumsCache)]

\* the task returns without its quorum's flag cleared
TaskReturns(i, outcome) ==
    /\ workerPool' = [workerPool EXCEPT ![i] = Finished(@, outcome)]
    /\ ret' = TaskStep(i, nullptr, NoRequest, outcome)
    /\ UNCHANGED <<mapQuorumsCache, mapQuorumDataRequests, evoDb, connectedNodes>>

\* the task leaves its loop: the flag of the quorum it holds is cleared
TaskEnds(i, outcome) ==
    /\ workerPool' = [workerPool EXCEPT ![i] = Finished(@, outcome)]
    /\ mapQuorumsCache' =
           IF workerPool[i].pQuorum # NoRet THEN mapQuorumsCache
           ELSE CachePut(mapQuorumsCache, workerPool[i].quorumHash,
                         [CacheValue(mapQuorumsCache, workerPool[i].quorumHash) EXCEPT
                             !.fQuorumDataRecoveryThreadRunning = FALSE])
    /\ ret' = TaskStep(i, nullptr, NoRequest, outcome)
    /\ UNCHANGED <<mapQuorumDataRequests, evoDb, connectedNodes>>

\* the task asks the member it has selected, then sleeps a second
TaskAsks(i, task, selected) ==
    \E a \in {AskCurrentMember(task, TaskQuorum(task, mapQuorumsCache),
                               activeMasternodeInfo.proTxHash, adjustedTime, connectedNodes,
                               minedCommitments, mapQuorumDataRequests, mapQuorumsCache, evoDb,
                               dkgManager)} :
        /\ workerPool' = KeepAlive([workerPool EXCEPT ![i] = [a.task EXCEPT !.pc = "loop"]],
                                   mapQuorumsCache, a.cache)
        /\ mapQuorumDataRequests' = a.requests
        /\ mapQuorumsCache' = a.cache
        /\ evoDb' = a.db
        /\ connectedNodes' = a.nodes
        /\ ret' = TaskStep(i, selected, a.sent, "")

\* a worker takes the task from the queue, or the task wakes up waiting for
\* the chain to be synced: up to the candidates it will ask
TaskBegins(i) ==
    /\ ~crashed
    /\ workerPool[i].pc \in {"queued", "waitSync"}
    /\ workerPool[i].pc = "queued" =>
           Cardinality({j \in DOMAIN workerPool :
                           workerPool[j].pc \notin {"queued", "done"}}) < workerCount
    /\ IF ~fBlockchainSynced /\ ~quorumThreadInterrupt
       THEN /\ workerPool[i].pc = "queued"
            /\ workerPool' = [workerPool EXCEPT ![i].pc = "waitSync"]
            /\ ret' = TaskStep(i, nullptr, NoRequest, "")
            /\ UNCHANGED <<mapQuorumsCache, mapQuorumDataRequests, evoDb, connectedNodes>>
       ELSE IF quorumThreadInterrupt
       THEN TaskReturns(i, "Aborted")
       ELSE /\ workerPool' =
                   [workerPool EXCEPT
                       ![i].pc = "loop",
                       ![i].nMyStartOffset =
                           GetQuorumRecoveryStartOffset(
                               TaskQuorum(workerPool[i], mapQuorumsCache), workerPool[i].pIndex,
                               activeMasternodeInfo.proTxHash),
                       ![i].vecMemberHashes =
                           Candidates(TaskQuorum(workerPool[i], mapQuorumsCache),
                                      activeMasternodeInfo.proTxHash)]
            /\ ret' = TaskStep(i, nullptr, NoRequest, "")
            /\ UNCHANGED <<mapQuorumsCache, mapQuorumDataRequests, evoDb, connectedNodes>>
    /\ UNCHANGED <<recFixed, crashed, scanQuorumsCache, masternodeQuorums,
                   quorumThreadInterrupt, fBlockchainSynced>>

\* one turn of the loop, from its head to the next sleep or to its end
TaskLoops(i) ==
    /\ ~crashed
    /\ workerPool[i].pc = "loop"
    /\ LET task == workerPool[i]
           missing == [task EXCEPT !.nDataMask =
                          DataMissing(@, TaskQuorum(task, mapQuorumsCache))]
           size == Len(task.vecMemberHashes)
           candidate == task.vecMemberHashes[
                            CandidateIndex(task.nMyStartOffset, task.nTries, size) + 1]
           chosen == [missing EXCEPT !.nTries = @ + 1, !.pCurrentMemberHash = candidate,
                                     !.selected = Append(@, candidate)]
       IN
       IF quorumThreadInterrupt THEN TaskEnds(i, "Interrupted")
       ELSE IF missing.nDataMask = 0 THEN TaskEnds(i, "Success")
       ELSE IF adjustedTime - task.nTimeLastSuccess > nRequestTimeout
       THEN IF task.nTries >= size THEN TaskEnds(i, "All tried but failed")
            ELSE /\ workerPool' =
                        [workerPool EXCEPT ![i] =
                            IF AlreadyRequested(mapQuorumDataRequests[<<candidate, TRUE>>],
                                                adjustedTime)
                            THEN chosen
                            ELSE [chosen EXCEPT !.pc = "selected"]]
                 /\ ret' = TaskStep(i, candidate, NoRequest, "")
                 /\ UNCHANGED <<mapQuorumsCache, mapQuorumDataRequests, evoDb, connectedNodes>>
       ELSE TaskAsks(i, missing, nullptr)
    /\ UNCHANGED <<recFixed, crashed, scanQuorumsCache, masternodeQuorums,
                   quorumThreadInterrupt, fBlockchainSynced>>

\* the task wakes up from the sleep that follows a selection
TaskSelected(i) ==
    /\ ~crashed
    /\ workerPool[i].pc = "selected"
    /\ TaskAsks(i, [workerPool[i] EXCEPT !.nTimeLastSuccess = adjustedTime], nullptr)
    /\ UNCHANGED <<recFixed, crashed, scanQuorumsCache, masternodeQuorums,
                   quorumThreadInterrupt, fBlockchainSynced>>

RecoveryTips == {8, 10}

NextRec ==
    \/ \E pindexNew \in RecoveryTips : NewBlockTip(pindexNew)
    \/ \E synced \in BOOLEAN : SetBlockchainSynced(synced)
    \/ Stop
    \/ \E proTxHash \in RecoveryPeers : ConnectNode(proTxHash)
    \/ TickRecovery
    \/ \E proTxHash \in RecoveryPeers, nError \in {"NONE", "QUORUM_NOT_FOUND"} :
           AnswerQDATA(proTxHash, nError)
    \/ \E i \in DOMAIN workerPool : TaskBegins(i)
    \/ \E i \in DOMAIN workerPool : TaskLoops(i)
    \/ \E i \in DOMAIN workerPool : TaskSelected(i)

SpecRec == InitRec /\ [][NextRec]_vars

\* the tasks there can be: each tip starts one for each quorum it scans, at most
TaskIds == 1..(Cardinality(RecoveryTips) * (signingActiveQuorumCount + 1))

\* the next step of task i
TaskRuns(i) ==
    /\ i \in DOMAIN workerPool
    /\ TaskBegins(i) \/ TaskLoops(i) \/ TaskSelected(i)

\* SpecRecLive: SpecRec where the worker pool runs every task that can take a
\* step and the clock does not stop
SpecRecLive ==
    /\ SpecRec
    /\ WF_vars(TickRecovery)
    /\ \A i \in TaskIds : WF_vars(TaskRuns(i))

(***************************************************************************)
(* SpecTrigger: TriggerQuorumDataRecoveryThreads under every setting of    *)
(* data recovery and of the vector sync mode, as block tips arrive at a    *)
(* masternode that holds all, part or nothing of the quorums' data.        *)
(***************************************************************************)
\* durable storage that also holds a secret key share of the quorums at anchors
ShareStoredFor(db, anchors) ==
    [db EXCEPT !.sk = [k \in ScanDbKeys |->
                          IF LookupBlockIndex(k[2]) \in anchors THEN 1 ELSE db.sk[k]]]

\* The masternode when it starts to follow the tip:
\*   a member of the three quorums mined, it holds everything of the last,
\*   the vector of the second, and nothing of the first;
\*   no member of the three quorums mined, it lacks the vector of two;
\*   a member of two quorums but not a valid one in the last, it holds
\*   nothing;
\*   not a valid member of the one quorum mined, it holds nothing.
TriggerStarts ==
    {[proTxHash |-> 12, mined |-> MinedAt({3, 7, 9}, {}),
      db |-> ShareStoredFor(VvecStoredFor({7, 9}), {9})],
     [proTxHash |-> 14, mined |-> MinedAt({3, 7, 9}, {}), db |-> VvecStoredFor({9})],
     [proTxHash |-> 11, mined |-> MinedAt({7, 9}, {9}), db |-> VvecStoredFor({})],
     [proTxHash |-> 11, mined |-> MinedAt({3}, {3}), db |-> VvecStoredFor({})]}

InitTrigger ==
    /\ qcTx = NoRet
    /\ pindexPrev = nullptr
    /\ pQuorumBaseBlockIndex = nullptr
    /\ checkSigs = FALSE
    /\ ret = NoRet
    /\ \E start \in TriggerStarts :
           /\ activeMasternodeInfo = [proTxHash |-> start.proTxHash]
           /\ minedCommitments = start.mined
           /\ evoDb = start.db
    /\ dkgManager = [h \in ScanAnchorHashes |-> NoContributions]
    /\ mapQuorumsCache = <<>>
    /\ mapQuorumDataRequests = [k \in RecoveryPeers \X {TRUE} |-> NoRequest]
    /\ adjustedTime = MaxTime
    /\ crashed = FALSE
    /\ scanQuorumsCache = <<>>
    /\ masternodeQuorums = {}
    /\ workerPool = <<>>
    /\ quorumThreadInterrupt = FALSE
    /\ fBlockchainSynced = TRUE
    /\ connectedNodes = {}
    /\ quorumsCacheCs = 0
    /\ calls = [i \in CallIds |-> [pc |-> "idle"]]
    /\ quorumPtrs = [allocated |-> 0, cached |-> <<>>]
    /\ hardware_concurrency = 0
    /\ gArgs \in [dataRecovery : BOOLEAN, qvvecSync : QvvecSyncModes \cup {"None"}]

TriggerTips == {7, 8, 9, 10}

NextTrigger ==
    \/ \E pindexNew \in TriggerTips : NewBlockTip(pindexNew)
    \/ \E synced \in BOOLEAN : SetBlockchainSynced(synced)

SpecTrigger == InitTrigger /\ [][NextTrigger]_vars

(***************************************************************************)
(* Properties of CheckLLMQCommitment (SpecTx).                             *)
(***************************************************************************)
\* the blocks on the branch that ends in b, found by walking pprev
RECURSIVE BranchOf(_)
BranchOf(b) == IF b = nullptr THEN {} ELSE {b} \cup BranchOf(pprev[b])

TxChecked == ret.op = "CheckLLMQCommitment"
TxAnchor == LookupBlockIndex(qcTx.commitment.quorumHash)
TxEnvelopeOk == qcTx.payload = "ok" /\ qcTx.nVersion \in 1..CURRENT_VERSION
TxHeightOk == qcTx.nHeight = nHeight(pindexPrev) + 1
TxAnchorUnknown == qcTx.commitment.quorumHash \notin {GetBlockHash(b) : b \in Blocks}
TxAnchorOffBranch == ~TxAnchorUnknown /\ TxAnchor \notin BranchOf(pindexPrev)

\* C3: a commitment transaction (payload and version in order) whose height is
\* pindexPrev's height + 1 and whose anchor hash is not in the block index is
\* rejected with "bad-qc-quorum-hash"; so is one whose anchor is not on the
\* branch of pindexPrev; one whose height is not pindexPrev's height + 1 is
\* rejected with "bad-qc-height"; with any of the three defects the
\* transaction is rejected with misbehaviour score 100.
C3_AnchorAndHeightRejections ==
    TxChecked =>
        /\ (TxEnvelopeOk /\ TxHeightOk /\ TxAnchorUnknown)
               => ret.value = [ok |-> FALSE, reason |-> "bad-qc-quorum-hash", dos |-> 100]
        /\ (TxEnvelopeOk /\ TxHeightOk /\ TxAnchorOffBranch)
               => ret.value = [ok |-> FALSE, reason |-> "bad-qc-quorum-hash", dos |-> 100]
        /\ (TxEnvelopeOk /\ ~TxHeightOk)
               => ret.value = [ok |-> FALSE, reason |-> "bad-qc-height", dos |-> 100]
        /\ (TxAnchorUnknown \/ TxAnchorOffBranch \/ ~TxHeightOk)
               => (~ret.value.ok /\ ret.value.dos = 100)

\* a transaction with the right height whose anchor is known but on the other
\* branch has been rejected with "bad-qc-quorum-hash"
C3_Witness ==
    /\ TxChecked /\ TxEnvelopeOk /\ TxHeightOk /\ TxAnchorOffBranch
    /\ nHeight(TxAnchor) <= nHeight(pindexPrev)
    /\ ret.value.reason = "bad-qc-quorum-hash"

\* the checks of CheckLLMQCommitment in the order of the specification: check
\* i fails
TxFails(i) ==
    CASE i = 1 -> qcTx.payload # "ok"
      [] i = 2 -> qcTx.nVersion \notin 1..CURRENT_VERSION
      [] i = 3 -> ~TxHeightOk
      [] i = 4 -> TxAnchorUnknown
      [] i = 5 -> TxAnchorOffBranch
      [] i = 6 -> qcTx.commitment.llmqType \notin llmqs
      [] i = 7 -> IF IsNull(qcTx.commitment)
                  THEN ~VerifyNull(qcTx.commitment)
                  ELSE TxAnchorUnknown \/ ~Verify(qcTx.commitment, TxAnchor, FALSE)

TxReasons ==
    <<"bad-qc-payload", "bad-qc-version", "bad-qc-height", "bad-qc-quorum-hash",
      "bad-qc-quorum-hash", "bad-qc-type",
      IF IsNull(qcTx.commitment) THEN "bad-qc-invalid-null" ELSE "bad-qc-invalid">>

TxNoneFails == \A i \in 1..7 : ~TxFails(i)

\* i is the first check that fails
TxFirstFailing(i) == TxFails(i) /\ \A j \in 1..(i - 1) : ~TxFails(j)

\* C4: the rejection reason is that of the first failing check in the order
\* payload, version, height, anchor known, anchor on the branch, quorum type,
\* null / non-null verification, and the transaction is accepted iff no check
\* fails.
C4_FirstFailingCheckDecides ==
    TxChecked =>
        /\ ret.value.ok <=> TxNoneFails
        /\ \A i \in 1..7 :
               TxFirstFailing(i) =>
                   ret.value = [ok |-> FALSE, reason |-> TxReasons[i], dos |-> 100]

\* a transaction with a wrong height, an unknown anchor and an unknown type
\* has been rejected for its height
C4_Witness ==
    /\ TxChecked /\ TxEnvelopeOk
    /\ TxFails(3) /\ TxFails(4) /\ TxFails(6)
    /\ ret.value.reason = "bad-qc-height"

TxChecks1to6Pass == \A i \in 1..6 : ~TxFails(i)

WithSigs(tx, msig, qsig) ==
    [tx EXCEPT !.commitment.membersSig = msig, !.commitment.quorumSig = qsig]

\* C5: once checks 1-6 pass, a null-form commitment is accepted iff VerifyNull
\* passes and any other iff Verify(anchor, checkSigs = FALSE) passes; a
\* transaction that differs only in whether its well-formed signatures verify
\* gets the same result.
C5_SignaturesNotChecked ==
    (TxChecked /\ TxChecks1to6Pass) =>
        /\ ret.value.ok <=> (IF IsNull(qcTx.commitment)
                             THEN VerifyNull(qcTx.commitment)
                             ELSE Verify(qcTx.commitment, TxAnchor, FALSE))
        /\ (SigIsValid(qcTx.commitment.membersSig) /\ SigIsValid(qcTx.commitment.quorumSig)) =>
               \A msig, qsig \in {"wellformed", "verifies"} :
                   CheckLLMQCommitment(WithSigs(qcTx, msig, qsig), pindexPrev) = ret.value

\* a non-null commitment whose signatures are well-formed but do not verify
\* has been accepted
C5_Witness ==
    /\ TxChecked /\ TxChecks1to6Pass
    /\ ~IsNull(qcTx.commitment)
    /\ qcTx.commitment.membersSig = "wellformed"
    /\ qcTx.commitment.quorumSig = "wellformed"
    /\ ret.value.ok

(***************************************************************************)
(* Properties of CFinalCommitment (SpecQC).                                *)
(***************************************************************************)
Verified == ret.op = "Verify"
NullVerified == ret.op = "VerifyNull"
QC == qcTx.commitment
QCParams == GetLLMQParams(QC.llmqType)
QCMembers == GetAllQuorumMembers(QCParams, pQuorumBaseBlockIndex)

\* C6: a commitment of a configured type with fewer than minSize signers bits
\* or fewer than minSize validMembers bits set fails Verify, for either value
\* of checkSigs and any anchor block.
C6_BelowMinSizeFails ==
    (/\ Verified
     /\ QC.llmqType \in llmqs
     /\ \/ CountBits(QC.signers) < QCParams.minSize
        \/ CountBits(QC.validMembers) < QCParams.minSize)
        => ret.value = FALSE

\* Verify has returned false for a commitment that is in order except that it
\* has too few signers
C6_Witness ==
    /\ Verified
    /\ QC.llmqType \in llmqs /\ QC.nVersion = CURRENT_VERSION
    /\ Len(QC.signers) = QCParams.size /\ Len(QC.validMembers) = QCParams.size
    /\ CountBits(QC.signers) < QCParams.minSize
    /\ CountBits(QC.validMembers) >= QCParams.minSize
    /\ QC.quorumPublicKey /\ QC.quorumVvecHash # 0
    /\ QC.membersSig = "verifies" /\ QC.quorumSig = "verifies"
    /\ \A i \in (Len(QCMembers) + 1)..QCParams.size : ~QC.signers[i] /\ ~QC.validMembers[i]
    /\ ret.value = FALSE

\* index i (from 0) is a set bit of bits
BitSetAt(bits, i) == (i + 1) \in DOMAIN bits /\ bits[i + 1]

\* some bit at an index from the member list's length up to params.size - 1 is set
QCBitBeyondMembers ==
    \E i \in Len(QCMembers)..(QCParams.size - 1) :
        BitSetAt(QC.validMembers, i) \/ BitSetAt(QC.signers, i)

\* C7: Verify returns false whenever validMembers[i] or signers[i] is set for
\* an index i with members.size() <= i < params.size.
C7_BitBeyondMembersFails ==
    (Verified /\ QCBitBeyondMembers) => ret.value = FALSE

\* Verify has returned false for a commitment that is in order except that a
\* signers bit beyond the member list is set
C7_Witness ==
    /\ Verified
    /\ QC.llmqType \in llmqs /\ QC.nVersion = CURRENT_VERSION
    /\ Len(QC.signers) = QCParams.size /\ Len(QC.validMembers) = QCParams.size
    /\ CountBits(QC.signers) >= QCParams.minSize
    /\ CountBits(QC.validMembers) >= QCParams.minSize
    /\ QC.quorumPublicKey /\ QC.quorumVvecHash # 0
    /\ QC.membersSig = "verifies" /\ QC.quorumSig = "verifies"
    /\ Len(QCMembers) < QCParams.size
    /\ \E i \in Len(QCMembers)..(QCParams.size - 1) : BitSetAt(QC.signers, i)
    /\ \A i \in Len(QCMembers)..(QCParams.size - 1) : ~BitSetAt(QC.validMembers, i)
    /\ ret.value = FALSE

QCAllBitsClear == CountBits(QC.signers) = 0 /\ CountBits(QC.validMembers) = 0

\* C8 as stated: VerifyNull returns true iff every bit of both bit-vectors is
\* clear and the quorum type is recognized.
C8_Original ==
    NullVerified => (ret.value <=> (QCAllBitsClear /\ QC.llmqType \in llmqs))

\* C8 amended: VerifyNull returns true iff every bit of both bit-vectors is
\* clear, the aggregated public key is absent, both bit-vectors have the
\* configured size and the quorum type is recognized; it returns false for any
\* commitment with a set bit.
C8_VerifyNullIff ==
    NullVerified =>
        /\ ret.value <=>
             /\ QCAllBitsClear
             /\ ~QC.quorumPublicKey
             /\ Len(QC.signers) = QCParams.size
             /\ Len(QC.validMembers) = QCParams.size
             /\ QC.llmqType \in llmqs
        /\ ~QCAllBitsClear => ret.value = FALSE

\* VerifyNull has returned false for a commitment of a recognized type with
\* all bits clear and no public key, whose signers vector is a bit short
C8_Witness ==
    /\ NullVerified
    /\ QCAllBitsClear /\ ~QC.quorumPublicKey /\ QC.llmqType \in llmqs
    /\ Len(QC.signers) # QCParams.size
    /\ ret.value = FALSE

(***************************************************************************)
(* Properties of the quorum manager (Spec).                                *)
(***************************************************************************)
CachedQuorums == {mapQuorumsCache[i].value : i \in DOMAIN mapQuorumsCache}

\* C1: in every reachable state, every quorum object that holds a verification
\* vector holds one that hashes to the quorumVvecHash of its commitment,
\* whichever of SetVerificationVector, ReadContributions and
\* BuildQuorumContributions put it there.
C1_VvecHashesToCommitment ==
    \A q \in CachedQuorums :
        HasVerificationVector(q) => SerializeHash(q.quorumVvec) = q.qc.quorumVvecHash

GotQuorum == ret.op = "GetQuorum"

\* C2: GetQuorum(type, anchor) returns null whenever no commitment is mined for
\* (type, anchor hash), also while a quorum for that hash is still in
\* mapQuorumsCache.
C2_NullWithoutMinedCommitment ==
    (GotQuorum /\ ~HasQuorum(minedCommitments, ret.llmqType, ret.quorumHash)) => ret.isNull

\* GetQuorum has returned null for a hash whose commitment was undone while
\* its quorum is still cached
C2_Witness ==
    /\ GotQuorum
    /\ ret.llmqType = LLMQ_TEST
    /\ CacheHas(mapQuorumsCache, ret.quorumHash)
    /\ ~HasQuorum(minedCommitments, ret.llmqType, ret.quorumHash)
    /\ ret.isNull

\* the quorum a QDATA message was about, before and after the handler ran
QDataQuorumBefore == CacheValue(mapQuorumsCache, ret'.quorumHash)
QDataQuorumAfter == CacheValue(mapQuorumsCache', ret'.quorumHash)

\* a step of the QDATA handler in which SetVerificationVector was called
SetVvecStep == ret'.op = "QDATA" /\ ret'.setVvec # "none"

\* C9: SetVerificationVector returns true and stores the vector exactly when
\* the vector hashes to the commitment's quorumVvecHash; when it returns false
\* the quorum's stored vector, present or absent, is what it was.
C9_SetVerificationVector ==
    [][SetVvecStep =>
         /\ ret'.setVvec = "accepted"
               <=> SerializeHash(ret'.vvecIn) = QDataQuorumBefore.qc.quorumVvecHash
         /\ ret'.setVvec = "accepted" => QDataQuorumAfter.quorumVvec = ret'.vvecIn
         /\ ret'.setVvec = "rejected"
               => QDataQuorumAfter.quorumVvec = QDataQuorumBefore.quorumVvec]_vars

\* SetVerificationVector has rejected a vector of another hash while the
\* quorum held a vector
C9_Witness ==
    /\ ret.op = "QDATA"
    /\ ret.setVvec = "rejected"
    /\ SerializeHash(ret.vvecIn) # CacheValue(mapQuorumsCache, ret.quorumHash).qc.quorumVvecHash
    /\ HasVerificationVector(CacheValue(mapQuorumsCache, ret.quorumHash))

\* a step of the QDATA handler in which SetSecretKeyShare was called
SetSkStep == ret'.op = "QDATA" /\ ret'.setSk # "none"

\* this node's index in the member list of the quorum, or -1
MyMemberIndex == GetMemberIndex(QDataQuorumBefore, activeMasternodeInfo.proTxHash)

\* the share is a valid key, this node is a valid member, the quorum has a
\* verification vector, and the key's public key is this member's share of it
SkShareIsMine ==
    /\ SkIsValid(ret'.skIn)
    /\ MyMemberIndex # -1
    /\ Bit(QDataQuorumBefore.qc.validMembers, MyMemberIndex)
    /\ HasVerificationVector(QDataQuorumAfter)
    /\ GetPublicKey(ret'.skIn) = BuildPubKeyShare(QDataQuorumAfter.quorumVvec, MyMemberIndex)

\* C10: a secret key share from a peer response is installed only if it is a
\* valid key whose public key equals the expected public key share for this
\* node's member index; in every other case (invalid key, mismatch, node not a
\* member or not a valid one, no verification vector) SetSecretKeyShare
\* returns false and the stored share is what it was.
C10_SetSecretKeyShare ==
    [][SetSkStep =>
         /\ ret'.setSk = "accepted" <=> SkShareIsMine
         /\ ret'.setSk = "accepted" => QDataQuorumAfter.skShare = ret'.skIn
         /\ ret'.setSk = "rejected"
               => QDataQuorumAfter.skShare = QDataQuorumBefore.skShare]_vars

\* SetSecretKeyShare has rejected a valid key that is not this member's share,
\* and the quorum still holds the share it had
C10_Witness ==
    /\ ret.op = "QDATA"
    /\ ret.setSk = "rejected"
    /\ SkIsValid(ret.skIn)
    /\ SkIsValid(CacheValue(mapQuorumsCache, ret.quorumHash).skShare)
    /\ CacheValue(mapQuorumsCache, ret.quorumHash).skShare # ret.skIn

(***************************************************************************)
(* Properties of the outgoing side of the data exchange (SpecOut).         *)
(***************************************************************************)
\* a step of RequestQuorumData, and the entry stored for its peer before it
RequestStep == ret'.op = "RequestQuorumData"
RequestStepKey == <<ret'.call.pFrom.proTxHash, TRUE>>
RequestStepStored == mapQuorumDataRequests[RequestStepKey]
RequestStepAge == adjustedTime - RequestStepStored.nTime

\* the call names what the stored request names
RequestStepIdentical ==
    <<ret'.call.llmqType, GetBlockHash(ret'.call.pQuorumIndex), ret'.call.nDataMask,
      ret'.call.proTxHash>>
        = <<RequestStepStored.llmqType, RequestStepStored.quorumHash,
            RequestStepStored.nDataMask, RequestStepStored.proTxHash>>

\* C11: a RequestQuorumData call toward a peer whose earlier request is not
\* yet expired returns false, sends nothing and leaves the table alone; an
\* identical call made once the earlier request's time to live has elapsed
\* returns true and sends a QGETDATA message.
C11_SecondRequest ==
    [][(RequestStep /\ RequestStepStored # NoRequest) =>
         /\ RequestStepAge < EXPIRATION_TIMEOUT
               => /\ ret'.value = FALSE
                  /\ ret'.sent = NoRequest
                  /\ mapQuorumDataRequests' = mapQuorumDataRequests
         /\ (RequestStepAge >= EXPIRATION_TIMEOUT /\ ret'.call.pQuorumIndex # nullptr
                /\ RequestStepIdentical)
               => /\ ret'.value = TRUE
                  /\ ret'.sent # NoRequest]_vars

\* RequestQuorumData has returned true and sent a message for a call that
\* repeats a request stored EXPIRATION_TIMEOUT or more ago
C11_Witness ==
    /\ ret.op = "RequestQuorumData"
    /\ ret.value
    /\ ret.sent # NoRequest
    /\ adjustedTime - ret.sent.nTime >= EXPIRATION_TIMEOUT
    /\ ret.sent.nDataMask = ret.call.nDataMask
    /\ ret.sent.proTxHash = ret.call.proTxHash

\* C12: when RequestQuorumData succeeds over an expired entry, the entry and
\* the message sent are the new call's request (its quorum type, quorum hash,
\* data mask and requester id) created now, unprocessed.
C12_ExpiredEntryReplaced ==
    [][(RequestStep /\ ret'.value /\ RequestStepStored # NoRequest
          /\ RequestStepAge >= EXPIRATION_TIMEOUT) =>
         /\ mapQuorumDataRequests'[RequestStepKey]
               = CQuorumDataRequest(ret'.call.llmqType, GetBlockHash(ret'.call.pQuorumIndex),
                                    ret'.call.nDataMask, ret'.call.proTxHash, adjustedTime)
         /\ ret'.sent = mapQuorumDataRequests'[RequestStepKey]]_vars

\* a step of the QDATA handler, and the entry stored for its peer before it
QDataStep == ret'.op = "QDATA"
QDataStepStored == mapQuorumDataRequests[<<ret'.pFrom.proTxHash, TRUE>>]

\* C14: a QDATA response from a verified peer with an unanswered request
\* stored, whose quorum type, quorum hash, data mask and requester id are not
\* all those of the stored request, is rejected as "Not like requested", and
\* no quorum and nothing in durable storage changes.
C14_NotLikeRequested ==
    [][(QDataStep /\ ret'.pFrom.proTxHash # 0 /\ QDataStepStored # NoRequest
          /\ ~QDataStepStored.fProcessed
          /\ <<ret'.request.llmqType, ret'.request.quorumHash, ret'.request.nDataMask,
               ret'.request.proTxHash>>
                # <<QDataStepStored.llmqType, QDataStepStored.quorumHash,
                    QDataStepStored.nDataMask, QDataStepStored.proTxHash>>) =>
         /\ ret'.error = "Not like requested"
         /\ mapQuorumsCache' = mapQuorumsCache
         /\ evoDb' = evoDb]_vars

\* a response that differs from the stored request in its data mask only has
\* been rejected as "Not like requested"
C14_Witness ==
    /\ ret.op = "QDATA"
    /\ ret.error = "Not like requested"
    /\ LET stored == mapQuorumDataRequests[<<ret.pFrom.proTxHash, TRUE>>]
       IN  /\ ret.request.quorumHash = stored.quorumHash
           /\ ret.request.llmqType = stored.llmqType
           /\ ret.request.proTxHash = stored.proTxHash
           /\ ret.request.nDataMask # stored.nDataMask

\* C15: once the entry stored for a peer is marked processed, every further
\* QDATA from that peer is rejected as "Already received" and changes neither
\* the entry, nor a quorum, nor durable storage.
C15_AcceptsOnce ==
    [][(QDataStep /\ ret'.pFrom.proTxHash # 0 /\ QDataStepStored # NoRequest
          /\ QDataStepStored.fProcessed) =>
         /\ ret'.error = "Already received"
         /\ mapQuorumDataRequests' = mapQuorumDataRequests
         /\ mapQuorumsCache' = mapQuorumsCache
         /\ evoDb' = evoDb]_vars

\* a response that echoes the stored request without error has been rejected
\* as "Already received"
C15_Witness ==
    /\ ret.op = "QDATA"
    /\ ret.error = "Already received"
    /\ ret.request.nError = "NONE"
    /\ LET stored == mapQuorumDataRequests[<<ret.pFrom.proTxHash, TRUE>>]
       IN  <<ret.request.llmqType, ret.request.quorumHash, ret.request.nDataMask,
             ret.request.proTxHash>>
               = <<stored.llmqType, stored.quorumHash, stored.nDataMask, stored.proTxHash>>

(***************************************************************************)
(* Persistence of received material (Spec).                                *)
(***************************************************************************)
\* the quorum the last QDATA message was about
QDataQuorum == CacheValue(mapQuorumsCache, ret.quorumHash)

\* C16: whenever the QDATA handler returns having installed a verification
\* vector or a secret key share in a quorum, durable storage holds that
\* material under the quorum's key.
C16_InstalledIsPersisted ==
    (ret.op = "QDATA" /\ ~crashed) =>
        /\ ret.setVvec = "accepted"
              => evoDb.vvec[MakeQuorumKey(QDataQuorum)] = QDataQuorum.quorumVvec
        /\ ret.setSk = "accepted"
              => evoDb.sk[MakeQuorumKey(QDataQuorum)] = QDataQuorum.skShare

(***************************************************************************)
(* Properties of the serving side of the data exchange (SpecIn).           *)
(***************************************************************************)
\* a step of the QGETDATA handler, and the entry stored for its peer before it
QGetDataStep == ret'.op = "QGETDATA"
QGetDataStepStored == mapQuorumDataRequests[<<ret'.pFrom.proTxHash, FALSE>>]

\* C13: a QGETDATA request from a verified peer that has an unexpired incoming
\* request stored leaves the stored entry unchanged and is not served: no
\* QDATA message with error NONE is sent for it.
C13_DuplicateRefused ==
    [][(QGetDataStep /\ ret'.pFrom.proTxHash # 0 /\ QGetDataStepStored # NoRequest
          /\ adjustedTime - QGetDataStepStored.nTime < EXPIRATION_TIMEOUT) =>
         /\ mapQuorumDataRequests' = mapQuorumDataRequests
         /\ ret'.sent.nError # "NONE"]_vars

\* C24: a QGETDATA request for encrypted contributions whose requester is
\* not a valid member of the quorum served (not in the member list, or its
\* validMembers bit unset) is answered with an error and no contributions.
C24_NotValidMemberRefused ==
    (/\ ret.op = "QGETDATA"
     /\ ret.sent # NoResponse
     /\ MaskHas(ret.sent.nDataMask, ENCRYPTED_CONTRIBUTIONS)
     /\ CacheHas(mapQuorumsCache, ret.sent.quorumHash)
     /\ ~IsValidMember(CacheValue(mapQuorumsCache, ret.sent.quorumHash), ret.sent.proTxHash))
        => ret.sent.nError # "NONE" /\ ~ret.sent.encrypted

(***************************************************************************)
(* Properties of rebuilding a quorum (SpecBuild).                          *)
(***************************************************************************)
Rebuilt == ret.op = "GetQuorum" /\ ret.built /\ ret.previous # NoRet

\* C25: a quorum built by GetQuorum for a commitment that GetQuorum returned
\* a quorum for before has the member list, the verification vector (or
\* none) and the secret key share of the quorum returned before.
C25_RebuiltIsSame ==
    Rebuilt =>
        /\ ret.quorum.members = ret.previous.members
        /\ ret.quorum.quorumVvec = ret.previous.quorumVvec
        /\ ret.quorum.skShare = ret.previous.skShare

\* the quorum was built again with a verification vector and a secret key
\* share after the DKG session manager let go of its contributions
C25_Witness ==
    /\ Rebuilt
    /\ HasVerificationVector(ret.quorum)
    /\ SkIsValid(ret.quorum.skShare)
    /\ dkgManager[ret.quorumHash] = NoContributions

(***************************************************************************)
(* Properties of ScanQuorums (SpecScan).                                   *)
(***************************************************************************)
Scanned == ret.op = "ScanQuorums"

\* what ScanQuorums(LLMQ_TEST, pindexStart, nCountRequested) returns in this state
ScanResult(pindexStart, nCountRequested) ==
    ScanQuorums(LLMQ_TEST, pindexStart, nCountRequested, minedCommitments,
                scanQuorumsCache, mapQuorumsCache, evoDb, dkgManager).result

AvailableAt(pindexStart) ==
    {b \in ScanAnchors : /\ minedCommitments[GetBlockHash(b)] # NoCommitment
                         /\ MinedIn(b) \in BranchOf(pindexStart)}

Elements(seq) == {seq[i] : i \in DOMAIN seq}

ScanExtended == Scanned /\ ret.cached # <<>> /\ Len(ret.cached) < ret.nCountRequested

\* C26 as stated: a call that found a cached list shorter than the count and
\* scanned for the rest stores the extended list, cut to the cache's
\* maximum, in the scan cache under the hash of the start block.
C26_ExtendedIsStored ==
    ScanExtended =>
        /\ ret.emplaced
        /\ CacheValue(scanQuorumsCache, GetBlockHash(ret.pindexStart))
               = FirstN(ret.result, QuorumsCacheSize)

\* C26 amended: a call that found a cached list shorter than the count and
\* scanned for the rest stores nothing in the scan cache; the entry under the
\* hash of the start block stays the list that was cached, which is the
\* extended list cut to the cache's maximum.
C26_ExtendedIsNotStored ==
    ScanExtended =>
        /\ ~ret.emplaced
        /\ CacheHas(scanQuorumsCache, GetBlockHash(ret.pindexStart))
        /\ CacheValue(scanQuorumsCache, GetBlockHash(ret.pindexStart)) = ret.cached
        /\ ret.cached = FirstN(ret.result, QuorumsCacheSize)

\* the cached list was full, the scan added to it, and the entry is the
\* list that was cached
C26_Witness ==
    /\ ScanExtended
    /\ Len(ret.cached) = QuorumsCacheSize
    /\ Len(ret.result) > QuorumsCacheSize
    /\ CacheValue(scanQuorumsCache, GetBlockHash(ret.pindexStart)) = ret.cached

(***************************************************************************)
(* Properties of EnsureQuorumConnections (SpecConn).                       *)
(***************************************************************************)
\* the hash of the start block of the DKG round in progress at pindexNew
CurDkgBlock(pindexNew) ==
    GetBlockHash(GetAncestor(pindexNew,
        nHeight(pindexNew) - (nHeight(pindexNew) % GetLLMQParams(LLMQ_TEST).dkgInterval)))

\* C20: a call of EnsureQuorumConnections leaves the connections of the
\* quorum anchored at the start block of the DKG round in progress at the
\* new tip in place, if they were set.
C20_KeepsDkgInProgress ==
    [][(/\ ret'.op = "EnsureQuorumConnections"
        /\ CurDkgBlock(ret'.pindexNew) \in masternodeQuorums)
          => CurDkgBlock(ret'.pindexNew) \in masternodeQuorums']_vars

\* the quorum of the round in progress is among the quorums scanned, its
\* connections are set and this node is not one of its members
C20_Witness ==
    /\ ret.op = "EnsureQuorumConnections"
    /\ CurDkgBlock(ret.pindexNew) \in masternodeQuorums
    /\ CurDkgBlock(ret.pindexNew) \in {GetBlockHash(b) : b \in Elements(ret.lastQuorums)}
    /\ ~CLLMQUtils_EnsureQuorumConnections(LLMQ_TEST, LookupBlockIndex(CurDkgBlock(ret.pindexNew)),
                                           activeMasternodeInfo.proTxHash, masternodeQuorums)[1]

\* C21: after a call of EnsureQuorumConnections every quorum whose
\* connections are still set is one of the keepOldConnections quorums mined
\* last at the new tip, or the quorum of the DKG round in progress there.
C21_OutsideWindowRemoved ==
    ret.op = "EnsureQuorumConnections" =>
        \A quorumHash \in masternodeQuorums :
            \/ quorumHash = CurDkgBlock(ret.pindexNew)
            \/ quorumHash \in {GetBlockHash(b) : b \in Elements(ret.lastQuorums)}

(***************************************************************************)
(* Properties of UpdatedBlockTip and of the recovery tasks (SpecRec).      *)
(***************************************************************************)
\* C27: UpdatedBlockTip changes no connection, no entry of the request table
\* and starts no recovery task while the blockchain is not synced; when it is
\* synced, the request table holds no expired entry once UpdatedBlockTip has
\* returned, and every entry that was there and not expired is there unchanged.
C27_TipSweepsExpiredOnly ==
    [][ret'.op = "UpdatedBlockTip" =>
          IF ~fBlockchainSynced
          THEN UNCHANGED <<masternodeQuorums, connectedNodes, mapQuorumDataRequests, workerPool>>
          ELSE /\ \A k \in DOMAIN mapQuorumDataRequests' :
                      mapQuorumDataRequests'[k] # NoRequest =>
                          ~IsExpired(mapQuorumDataRequests'[k], adjustedTime')
               /\ \A k \in DOMAIN mapQuorumDataRequests :
                      AlreadyRequested(mapQuorumDataRequests[k], adjustedTime) =>
                          mapQuorumDataRequests'[k] = mapQuorumDataRequests[k]]_vars

\* a synced UpdatedBlockTip has swept an expired entry and left another entry
C27_Witness ==
    /\ ret.op = "UpdatedBlockTip"
    /\ ret.synced
    /\ ret.expired # {}
    /\ \E k \in DOMAIN mapQuorumDataRequests : mapQuorumDataRequests[k] # NoRequest

\* UpdatedBlockTip has returned at once: the blockchain was not synced, with
\* requests in the table and a task in the pool
C27_NotSynced ==
    /\ ret.op = "UpdatedBlockTip"
    /\ ~ret.synced
    /\ \E k \in DOMAIN mapQuorumDataRequests : mapQuorumDataRequests[k] # NoRequest
    /\ workerPool # <<>>

\* the tasks in their loop
Looping == {i \in DOMAIN workerPool : workerPool[i].pc \in {"loop", "selected"}}

\* C28: a recovery task takes its candidates one at a time from the sorted
\* list of the valid members other than this masternode, the k-th at index
\* (nMyStartOffset + k) mod the length of the list, where nMyStartOffset is the
\* rank of this masternode among the valid masternodes modulo the quorum
\* size: the index is within the list, no candidate is taken twice, no more
\* candidates are taken than the list holds, and a task with an empty list
\* ends as exhausted without taking a candidate or sending a request.
C28_CandidatesInTurn ==
    /\ \A i \in Looping :
           LET task == workerPool[i]
               pQuorum == TaskQuorum(task, mapQuorumsCache)
               size == Len(task.vecMemberHashes)
           IN  /\ task.vecMemberHashes =
                      SortedSeq({m \in Elements(pQuorum.members) :
                                    /\ IsValidMember(pQuorum, m)
                                    /\ m # activeMasternodeInfo.proTxHash})
               /\ task.nMyStartOffset =
                      (IF activeMasternodeInfo.proTxHash \in GetListForBlock(task.pIndex)
                       THEN Cardinality({h \in GetListForBlock(task.pIndex) :
                                            h < activeMasternodeInfo.proTxHash})
                       ELSE 0) % Len(pQuorum.members)
               /\ Len(task.selected) = task.nTries
               /\ Len(task.selected) <= size
               /\ \A k \in DOMAIN task.selected :
                      /\ (task.nMyStartOffset + k - 1) % size \in 0..(size - 1)
                      /\ task.selected[k] =
                             task.vecMemberHashes[((task.nMyStartOffset + k - 1) % size) + 1]
               /\ \A k, l \in DOMAIN task.selected :
                      k # l => task.selected[k] # task.selected[l]
    /\ (ret.op = "Task" /\ ret.pc = "loop" /\ ret.candidates = 0) =>
           /\ ret.selected = nullptr
           /\ ret.sent = NoRequest
           /\ ret.outcome \in {"All tried but failed", "Interrupted"}

\* a task has taken two candidates, the second at the start of the list again
C28_Witness ==
    \E i \in Looping :
        /\ Len(workerPool[i].selected) = 2
        /\ workerPool[i].nMyStartOffset = 1
        /\ workerPool[i].selected[2] = workerPool[i].vecMemberHashes[1]

\* a task with no candidate has ended as exhausted
C28_NoCandidate ==
    /\ ret.op = "Task"
    /\ ret.candidates = 0
    /\ ret.outcome = "All tried but failed"

\* every data kind of mask a is one of mask b
SubMask(a, b) ==
    \A bit \in {QUORUM_VERIFICATION_VECTOR, ENCRYPTED_CONTRIBUTIONS} :
        MaskHas(a, bit) => MaskHas(b, bit)

\* a task that ends with success holds a quorum with the data of its initial mask
SuccessHasData ==
    (ret.op = "Task" /\ ret.outcome = "Success") =>
        /\ MaskHas(ret.nDataMaskIn, QUORUM_VERIFICATION_VECTOR) =>
               HasVerificationVector(ret.quorum)
        /\ MaskHas(ret.nDataMaskIn, ENCRYPTED_CONTRIBUTIONS) => SkIsValid(ret.quorum.skShare)

\* the working mask of a task only loses bits
MaskShrinks ==
    [][\A i \in DOMAIN workerPool :
          /\ SubMask(workerPool[i].nDataMask, workerPool[i].nDataMaskIn)
          /\ SubMask(workerPool'[i].nDataMask, workerPool[i].nDataMask)]_vars

\* the request a step of a task has sent asks for data of the task's initial mask
SentWithinInitial ==
    (ret.op = "Task" /\ ret.sent # NoRequest) => SubMask(ret.sent.nDataMask, ret.nDataMaskIn)

\* C29: a recovery task ends with success only when the quorum holds every
\* data kind of the task's initial mask, and every request the task sends
\* asks for a subset of the initial mask.
C29_SuccessAndRequestsWithinMask == SuccessHasData /\ SentWithinInitial

\* C30: at any time at most one recovery task is queued or running for a
\* quorum, whatever the order of block tips, task ends, evictions from the
\* quorum cache and rebuilds.
C30_OneTaskPerQuorum ==
    \A i, j \in DOMAIN workerPool :
        (i # j /\ Live(workerPool[i]) /\ Live(workerPool[j])) =>
            workerPool[i].quorumHash # workerPool[j].quorumHash

\* what the cached quorums hold stays as it is once the interrupt is raised
InstalledStays ==
    [][quorumThreadInterrupt =>
          \A i \in DOMAIN mapQuorumsCache :
              CacheHas(mapQuorumsCache', mapQuorumsCache[i].key) =>
                  LET before == mapQuorumsCache[i].value
                      after == CacheValue(mapQuorumsCache', mapQuorumsCache[i].key)
                  IN  /\ HasVerificationVector(before) => after.quorumVvec = before.quorumVvec
                      /\ SkIsValid(before.skShare) => after.skShare = before.skShare]_vars

\* C23: once the interrupt is raised, no step of a recovery task selects a
\* candidate or sends a request.
C23_InterruptedTaskAsksNoMore ==
    (ret.op = "Task" /\ ret.interrupted) =>
        /\ ret.selected = nullptr
        /\ ret.sent = NoRequest

\* every task is over, or the process has died
AllTasksOver == crashed \/ \A i \in DOMAIN workerPool : ~Live(workerPool[i])

\* once the interrupt is raised every task comes to its end
InterruptEndsTasks == quorumThreadInterrupt ~> AllTasksOver

\* C22: a recovery task that was started comes to its end (success, all
\* candidates tried, or interrupted) when the tasks are scheduled, the clock
\* runs and the blockchain stays synced from some time on, whatever the
\* members do and whether or not a new block tip arrives.
C22_EveryTaskEnds ==
    (<>[]fBlockchainSynced) => []<>AllTasksOver

(***************************************************************************)
(* The outstanding request and the responses that are turned away          *)
(* (SpecOut).                                                              *)
(***************************************************************************)
\* the response of the step echoes the entry stored for its peer
QDataStepMatches ==
    /\ QDataStepStored # NoRequest
    /\ <<ret'.request.llmqType, ret'.request.quorumHash, ret'.request.nDataMask,
         ret'.request.proTxHash>>
         = <<QDataStepStored.llmqType, QDataStepStored.quorumHash, QDataStepStored.nDataMask,
             QDataStepStored.proTxHash>>

\* C40: a QDATA rejected as "Not requested" or "Not like requested" leaves
\* the table of requests as it was; a response that echoes the stored,
\* unprocessed entry of its verified peer is not rejected by the three
\* tests and marks that entry processed; and the table changes in no other
\* way than by such a response marking its entry.
C40_RejectedKeepsRequest ==
    [][QDataStep =>
         /\ ret'.error \in {"Not requested", "Not like requested"}
               => mapQuorumDataRequests' = mapQuorumDataRequests
         /\ (ret'.pFrom.proTxHash # 0 /\ QDataStepMatches /\ ~QDataStepStored.fProcessed)
               => /\ ret'.error \notin {"Not requested", "Not like requested", "Already received",
                                        "Not a verified masternode or a qwatch connection"}
                  /\ mapQuorumDataRequests'
                       = [mapQuorumDataRequests EXCEPT
                             ![<<ret'.pFrom.proTxHash, TRUE>>].fProcessed = TRUE]
         /\ mapQuorumDataRequests' # mapQuorumDataRequests
               => QDataStepMatches /\ ~QDataStepStored.fProcessed]_vars

\* a response with another data mask than the stored one has been turned
\* away and the entry is still unprocessed
C40_Witness ==
    /\ ret.op = "QDATA"
    /\ ret.error = "Not like requested"
    /\ LET stored == mapQuorumDataRequests[<<ret.pFrom.proTxHash, TRUE>>]
       IN  /\ ~stored.fProcessed
           /\ ret.request.quorumHash = stored.quorumHash
           /\ ret.request.nDataMask # stored.nDataMask


\* C39: a QDATA response that echoes the stored request of its verified peer
\* without error, asks for the encrypted contributions only, and finds the
\* quorum in the cache without a verification vector, is rejected as "No
\* valid quorum verification vector available"; the process lives on and
\* neither the quorum nor durable storage changes.
C39_NoVvecIsRejected ==
    [][(/\ QDataStep
        /\ ret'.pFrom.proTxHash # 0
        /\ QDataStepMatches
        /\ ~QDataStepStored.fProcessed
        /\ ret'.request.nError = "NONE"
        /\ MaskHas(ret'.request.nDataMask, ENCRYPTED_CONTRIBUTIONS)
        /\ ~MaskHas(ret'.request.nDataMask, QUORUM_VERIFICATION_VECTOR)
        /\ CacheHas(mapQuorumsCache, ret'.request.quorumHash)
        /\ ~HasVerificationVector(CacheValue(mapQuorumsCache, ret'.request.quorumHash))) =>
         /\ ret'.error = "No valid quorum verification vector available"
         /\ ~crashed'
         /\ CacheValue(mapQuorumsCache', ret'.request.quorumHash)
              = CacheValue(mapQuorumsCache, ret'.request.quorumHash)
         /\ evoDb' = evoDb]_vars


(***************************************************************************)
(* The response to a QGETDATA request (SpecServe).                         *)
(***************************************************************************)
\* the request of the step, and the quorum it is about once the handler is
\* through with it
QGetDataRequest == ret'.request
QGetDataQuorum == CacheValue(mapQuorumsCache', QGetDataRequest.quorumHash)
QGetDataAuthenticated == ret'.pFrom.proTxHash # 0 \/ ret'.pFrom.qwatch

\* the error codes before the ones on the quorum's data: the first that
\* applies, or "" when the quorum is there
QGetDataLookupError ==
    IF QGetDataRequest.llmqType \notin llmqs THEN "QUORUM_TYPE_INVALID"
    ELSE IF LookupBlockIndex(QGetDataRequest.quorumHash) = nullptr THEN "QUORUM_BLOCK_NOT_FOUND"
    ELSE IF ~HasMinedCommitment(minedCommitments, QGetDataRequest.llmqType,
                                QGetDataRequest.quorumHash) THEN "QUORUM_NOT_FOUND"
    ELSE ""

QGetDataVvecMissing ==
    /\ MaskHas(QGetDataRequest.nDataMask, QUORUM_VERIFICATION_VECTOR)
    /\ QGetDataQuorum.quorumVvec = NoVvec

QGetDataNoMember == QGetDataRequest.proTxHash \notin Elements(QGetDataQuorum.members)

QGetDataEncMissing ==
    /\ MaskHas(QGetDataRequest.nDataMask, ENCRYPTED_CONTRIBUTIONS)
    /\ ~ret'.hasEncrypted

\* the response echoes the request; one with an error has no body, one
\* without has the vector and the contributions the mask asks for
QGetDataResponseIs(nError) ==
    /\ ret'.sent # NoResponse
    /\ <<ret'.sent.llmqType, ret'.sent.quorumHash, ret'.sent.nDataMask, ret'.sent.proTxHash>>
         = <<QGetDataRequest.llmqType, QGetDataRequest.quorumHash, QGetDataRequest.nDataMask,
             QGetDataRequest.proTxHash>>
    /\ ret'.sent.nError = nError
    /\ IF nError = "NONE"
       THEN /\ ret'.sent.vvec
                 = IF MaskHas(QGetDataRequest.nDataMask, QUORUM_VERIFICATION_VECTOR)
                   THEN QGetDataQuorum.quorumVvec ELSE NoVvec
            /\ ret'.sent.encrypted = MaskHas(QGetDataRequest.nDataMask, ENCRYPTED_CONTRIBUTIONS)
       ELSE ret'.sent.vvec = NoVvec /\ ~ret'.sent.encrypted

ReturnedFor(quorumHash) ==
    {i \in CallIds : /\ calls[i].pc = "returned"
                     /\ GetBlockHash(calls[i].pindexQuorum) = quorumHash
                     /\ calls[i].pQuorum # nullptr}

\* C31: when calls of GetQuorum for one anchor with a mined commitment have
\* returned, however their steps were interleaved and with nothing leaving
\* the cache, one of all the calls for that anchor has built a quorum, the
\* calls have returned the same object, and that object is the one the
\* quorum cache holds under the anchor's hash.
C31_OneBuildOneObject ==
    \A quorumHash \in AnchorHashes :
        ReturnedFor(quorumHash) # {} =>
            /\ Cardinality({i \in CallIds : /\ calls[i].pc # "idle"
                                            /\ GetBlockHash(calls[i].pindexQuorum) = quorumHash
                                            /\ calls[i].built}) = 1
            /\ CacheHas(mapQuorumsCache, quorumHash)
            /\ \A i \in ReturnedFor(quorumHash) :
                   calls[i].pQuorum = CachedPtr(quorumPtrs, quorumHash)

\* two calls for the same anchor have returned a quorum, one of them after
\* building it
C31_Witness ==
    /\ ReturnedFor(GetBlockHash(3)) = CallIds
    /\ calls[1].built # calls[2].built

\* a call waits for the lock while the other, which found nothing in the
\* cache, is about to build
C31_Contended ==
    \E i, j \in CallIds :
        /\ calls[i].pc = "missed"
        /\ calls[j].pc = "checked"
        /\ calls[i].pindexQuorum = calls[j].pindexQuorum


(***************************************************************************)
(* The size of the worker pool (SpecStart).                                *)
(***************************************************************************)
\* C33: Start gives the worker pool 4 threads whatever the number of
\* hardware threads is: 0 when it is unknown, 1, a number whose half is
\* between 1 and 4, or a larger one.
C33_WorkerCountIsFour ==
    ret.op = "Start" => ret.workerCount = 4

\* Start has run on a machine with more than eight hardware threads
C33_Witness ==
    /\ ret.op = "Start"
    /\ hardware_concurrency \div 2 > 4
    /\ ret.workerCount = 4

\* Start has run on a machine that does not tell its number of threads
C33_UnknownConcurrency ==
    /\ ret.op = "Start"
    /\ hardware_concurrency = 0


(***************************************************************************)
(* The secret key share and the verification vector (Spec).                *)
(***************************************************************************)
\* C34: every quorum in the cache that holds a valid secret key share holds
\* a verification vector, whether it was built from the contributions of
\* the DKG session, read from durable storage, or given its share by a QDATA
\* response; and durable storage holds a valid share only with a vector.
C34_SkShareNeedsVvec ==
    /\ \A i \in DOMAIN mapQuorumsCache :
           SkIsValid(mapQuorumsCache[i].value.skShare)
               => mapQuorumsCache[i].value.quorumVvec # NoVvec
    /\ \A k \in DbKeys : SkIsValid(evoDb.sk[k]) => evoDb.vvec[k] # NoVvec

\* a QDATA response has given a quorum in the cache its secret key share
C34_Witness ==
    /\ ret.op = "QDATA"
    /\ ret.setSk = "accepted"
    /\ CacheHas(mapQuorumsCache, ret.quorumHash)
    /\ SkIsValid(CacheValue(mapQuorumsCache, ret.quorumHash).skShare)
    /\ CacheValue(mapQuorumsCache, ret.quorumHash).quorumVvec # NoVvec

\* a quorum whose share came with the contributions of the DKG session, or
\* from durable storage after a restart
C34_BuiltWithShare ==
    /\ ret.op = "GetQuorum"
    /\ ~ret.isNull
    /\ SkIsValid(CacheValue(mapQuorumsCache, ret.quorumHash).skShare)


(***************************************************************************)
(* The recovery tasks TriggerQuorumDataRecoveryThreads starts              *)
(* (SpecTrigger).                                                          *)
(***************************************************************************)
\* the quorum of a task, as the cache holds it after the tip was handled
TriggeredQuorum(task) == CacheValue(mapQuorumsCache', task.quorumHash)

\* this node is a valid member of the quorum
TriggerMember(pQuorum) ==
    \E i \in DOMAIN pQuorum.members :
        /\ pQuorum.members[i] = activeMasternodeInfo.proTxHash
        /\ pQuorum.qc.validMembers[i]

\* the quorums scanned at the tip: the last signingActiveQuorumCount + 1 mined
TriggerScannedAt(pindexNew) ==
    Elements(FirstN(MinedUntil(pindexNew, minedCommitments), signingActiveQuorumCount + 1))

\* vector sync is set for the type and applies now
TriggerSyncApplies(pindexNew) ==
    \/ gArgs.qvvecSync = "Always"
    \/ /\ gArgs.qvvecSync = "OnlyIfTypeMember"
       /\ \E b \in TriggerScannedAt(pindexNew) :
              TriggerMember(CacheValue(mapQuorumsCache', GetBlockHash(b)))

C32_ShareOnly ==
    /\ ret.op = "UpdatedBlockTip"
    /\ \E i \in DOMAIN workerPool : workerPool[i].nDataMaskIn = ENCRYPTED_CONTRIBUTIONS

\* a tip handled with recovery disabled
C32_Disabled ==
    /\ ret.op = "UpdatedBlockTip"
    /\ ret.synced
    /\ ~gArgs.dataRecovery
    /\ mapQuorumsCache # <<>>


(***************************************************************************)
(* The flag fQuorumDataRecoveryThreadRunning at the end of a task          *)
(* (SpecRec).                                                              *)
(***************************************************************************)
\* a task for the quorum hash is queued or running
TaskLiveFor(quorumHash) ==
    \E j \in DOMAIN workerPool :
        Live(workerPool[j]) /\ workerPool[j].quorumHash = quorumHash

\* C35: when a recovery task has ended, by whichever exit, and no other
\* task for its quorum is queued or running, the quorum in the cache has its
\* recovery-running flag false.
C35_FlagClearedAtExit ==
    (ret.op = "Task" /\ ret.outcome # "") =>
        LET quorumHash == workerPool[ret.task].quorumHash IN
        (CacheHas(mapQuorumsCache, quorumHash) /\ ~TaskLiveFor(quorumHash)) =>
            ~CacheValue(mapQuorumsCache, quorumHash).fQuorumDataRecoveryThreadRunning

(***************************************************************************)
(* ScanQuorums and reorganizations (SpecReorg).                            *)
(***************************************************************************)
\* C36: assert(quorum != nullptr) (GetQuorum returned a quorum for every
\* block the scan of the mined commitments gave) does not fail, whatever
\* happens to the chain between the scan and the calls of GetQuorum.
C36_AssertHolds ==
    ret.op # "assert"

\* C37: every quorum ScanQuorums returns, from the scan cache or not, has
\* its commitment mined in the active chain when the call returns.
C37_ReturnedAreMined ==
    ret.op = "ScanQuorums" =>
        \A i \in DOMAIN ret.result :
            HasMinedCommitment(minedCommitments, LLMQ_TEST, GetBlockHash(ret.result[i]))



====
